---------------------------- MODULE Spec2Model ----------------------------
(***************************************************************************)
(* Model of the Houdini Engine plugin's input translator                   *)
(* (Source/HoudiniEngine/Private/HoudiniInputTranslator.cpp) and of the     *)
(* material and instancer handlers of the output details panel             *)
(* (Source/HoudiniEngineEditor/Private/HoudiniOutputDetails.cpp).          *)
(*                                                                         *)
(* The module holds several specifications over one set of variables; each *)
(* specification drives one part of the program and leaves the variables   *)
(* of the other parts at their idle values.                                *)
(*   SpecLabel     GetDefaultInputTypeFromLabel                            *)
(*   SpecInstancer the instancer panel's variation lambdas                 *)
(*   SpecMaterial  material replacement / reset on a static mesh output    *)
(*   SpecUpload    UploadChangedInputs on geometry and world inputs        *)
(*   SpecAsset     asset inputs, DestroyInputNodes                         *)
(*   SpecWorld     FHoudiniMoveTracker and UpdateWorldInputs               *)
(*   SpecBuild     BuildAllInputs                                          *)
(***************************************************************************)
EXTENDS Integers, Sequences, FiniteSets, TLC

VARIABLES
    \* ---- GetDefaultInputTypeFromLabel
    InputName,                  \* the label handed to the function (sequence of characters)
    DefaultType,                \* the returned EHoudiniInputType, "Pending" before the call
    \* ---- FHoudiniInstancedOutput shown by CreateInstancerOutputWidget
    VariationObjects,           \* TArray<TSoftObjectPtr<UObject>>
    VariationTransformOffsets,  \* TArray<FTransform>
    bChanged,                   \* FHoudiniInstancedOutput::bChanged
    instLast,                   \* the last lambda that ran, and its arguments
    \* ---- a static mesh UHoudiniOutput shown by the output details panel
    StaticMaterials,            \* per static mesh: StaticMaterials[i].MaterialInterface
    ComponentMaterials,         \* per output object: its mesh component's materials
    OutputObjects,              \* UHoudiniOutput::OutputObjects
    ReplacementMaterials,       \* TMap<FString, UMaterialInterface*>
    AssignementMaterials,       \* TMap<FString, UMaterialInterface*>
    matLast,                    \* the last material handler that ran, and what it saw
    \* ---- the Houdini asset components and their inputs
    Inputs,                     \* UHoudiniAssetComponent::Inputs of the owner component
    Components,                 \* the Houdini asset components of the level
    Downstream,                 \* pairs <<upstream, downstream>> of DownstreamHoudiniAssets
    Tracker,                    \* the FHoudiniMoveTracker singleton
    OwnerWorld,                 \* the world of the owner component's actor
    callLog                     \* the last translator call: arguments, result, HAPI calls

labelVars == <<InputName, DefaultType>>
instVars  == <<VariationObjects, VariationTransformOffsets, bChanged, instLast>>
matVars   == <<StaticMaterials, ComponentMaterials, OutputObjects,
               ReplacementMaterials, AssignementMaterials, matLast>>
inputVars == <<Inputs, Components, Downstream, Tracker, OwnerWorld, callLog>>
vars      == <<labelVars, instVars, matVars, inputVars>>

(***************************************************************************)
(* Sequence helpers (TArray operations).                                   *)
(***************************************************************************)
\* TArray::Insert(Item, Index), Index 0-based, 0 <= Index <= Num()
InsertAt(s, idx, e) == SubSeq(s, 1, idx) \o <<e>> \o SubSeq(s, idx + 1, Len(s))

\* TArray::RemoveAt(Index), Index 0-based
RemoveAt(s, idx) == SubSeq(s, 1, idx) \o SubSeq(s, idx + 2, Len(s))

\* TArray::IsValidIndex(Index), Index 0-based
IsValidIndex(s, idx) == idx >= 0 /\ idx < Len(s)

\* All sequences over S of length 0..n
SeqUpTo(S, n) == UNION {[1..k -> S] : k \in 0..n}

(***************************************************************************)
(* EHoudiniInputType                                                       *)
(***************************************************************************)
InputTypes == {"Invalid", "Geometry", "Curve", "Asset", "Landscape", "World", "Skeletal"}

(***************************************************************************)
(* Strings are sequences of characters, so that substring search and case  *)
(* folding are computed and not assumed.                                   *)
(***************************************************************************)
UpperChars == <<"A","B","C","D","E","F","G","H","I","J","K","L","M",
                "N","O","P","Q","R","S","T","U","V","W","X","Y","Z">>
LowerChars == <<"a","b","c","d","e","f","g","h","i","j","k","l","m",
                "n","o","p","q","r","s","t","u","v","w","x","y","z">>

\* TChar::ToLower
ToLower(c) ==
    IF \E i \in 1..Len(UpperChars) : UpperChars[i] = c
    THEN LowerChars[CHOOSE i \in 1..Len(UpperChars) : UpperChars[i] = c]
    ELSE c

\* Character comparison under ESearchCase::IgnoreCase
SameChar(a, b) == ToLower(a) = ToLower(b)

\* FString::Contains(SubStr, ESearchCase::IgnoreCase)
Contains(str, sub) ==
    \E start \in 1..(Len(str) - Len(sub) + 1) :
        \A k \in 1..Len(sub) : SameChar(str[start + k - 1], sub[k])

\* The magic words of GetDefaultInputTypeFromLabel
curvePrefix      == <<"c","u","r","v","e">>
landscapePrefix  == <<"l","a","n","d","s","c","a","p","e">>
landscapePrefix2 == <<"t","e","r","r","a","i","n">>
landscapePrefix3 == <<"h","e","i","g","h","t","f","i","e","l","d">>
worldPrefix      == <<"w","o","r","l","d">>
worldPrefix2     == <<"o","u","t","l","i","n","e","r">>
assetPrefix      == <<"a","s","s","e","t">>
assetPrefix2     == <<"h","d","a">>

\* The function with the World and Asset rules tried in the other order
GetDefaultInputTypeFromLabel_AssetFirst(Name) ==
    IF Contains(Name, curvePrefix) THEN "Curve"
    ELSE IF Contains(Name, landscapePrefix) \/ Contains(Name, landscapePrefix2)
            \/ Contains(Name, landscapePrefix3) THEN "Landscape"
    ELSE IF Contains(Name, assetPrefix) \/ Contains(Name, assetPrefix2) THEN "Asset"
    ELSE IF Contains(Name, worldPrefix) \/ Contains(Name, worldPrefix2) THEN "World"
    ELSE "Geometry"

\* FHoudiniInputTranslator::GetDefaultInputTypeFromLabel
GetDefaultInputTypeFromLabel(Name) ==
    IF Contains(Name, curvePrefix) THEN "Curve"
    ELSE IF Contains(Name, landscapePrefix) \/ Contains(Name, landscapePrefix2)
            \/ Contains(Name, landscapePrefix3) THEN "Landscape"
    ELSE IF Contains(Name, worldPrefix) \/ Contains(Name, worldPrefix2) THEN "World"
    ELSE IF Contains(Name, assetPrefix) \/ Contains(Name, assetPrefix2) THEN "Asset"
    ELSE "Geometry"

(***************************************************************************)
(* Labels tried: concatenations of up to MaxLabelParts fragments.  The     *)
(* fragments are the magic words in several casings, pieces of them that   *)
(* only form a word when joined, and filler.                               *)
(***************************************************************************)
MaxLabelParts == 3

LabelFragments ==
    { <<"C","u","r","v","e">>,
      <<"l","a","n","d","S","C","A","P","E">>,
      <<"T","e","r","r","a","i","n">>,
      <<"H","e","i","g","h","t","F","i","e","l","d">>,
      <<"W","O","R","L","D">>,
      <<"o","u","t","L","i","n","e","r">>,
      <<"A","s","s","e","t">>,
      <<"H","D","A">>,
      <<"c","u","r">>,
      <<"v","e">>,
      <<"h","d">>,
      <<"a","s">>,
      <<"s","e","t">>,
      <<"_">>,
      <<"I","n","p","u","t","1">> }

RECURSIVE Concat(_)
Concat(parts) == IF parts = <<>> THEN <<>> ELSE Head(parts) \o Concat(Tail(parts))

Labels == {Concat(p) : p \in SeqUpTo(LabelFragments, MaxLabelParts)}

(***************************************************************************)
(* Idle values of each part's variables.                                   *)
(***************************************************************************)
LabelIdle ==
    /\ InputName = <<>>
    /\ DefaultType = "Pending"

\* FTransform values: 0 is FTransform::Identity
Identity == 0

InstIdle ==
    /\ VariationObjects = <<1>>
    /\ VariationTransformOffsets = <<Identity>>
    /\ bChanged = FALSE
    /\ instLast = [op |-> "none"]

\* TMap helpers: a map is a function whose domain is its key set
EmptyMap == [k \in {} |-> 0]
MapAdd(map, key, value) ==
    [k \in DOMAIN map \cup {key} |-> IF k = key THEN value ELSE map[k]]
MapRemove(map, key) == [k \in DOMAIN map \ {key} |-> map[k]]
\* The keys TMap::FindKey(Value) can answer.  FindKey walks the map's storage
\* and answers the first pair holding Value; which pair is first depends on the
\* map's allocation history, so every such key is a possible answer.
KeysOf(map, value) == {k \in DOMAIN map : map[k] = value}

\* Number of material slots of the first static mesh
NumSlots == 2

\* The Houdini default material and its key
DefaultMaterial == "DefaultMaterial"
HAPI_UNREAL_DEFAULT_MATERIAL_NAME == "default"

\* UObject::GetName of a material: materials are named by themselves
GetName(material) == material

\* The material cooked for slot i (0-based) of a mesh
CookedMaterial(i) ==
    IF i = 0 THEN "M1" ELSE IF i = 1 THEN "M2" ELSE DefaultMaterial

MatIdle ==
    /\ StaticMaterials = <<[i \in 1..NumSlots |-> CookedMaterial(i - 1)], <<"M2">>>>
    /\ OutputObjects = <<[mesh |-> 1, bHasComponent |-> TRUE],
                         [mesh |-> 2, bHasComponent |-> FALSE]>>
    /\ ComponentMaterials = <<[i \in 1..NumSlots |-> CookedMaterial(i - 1)], <<>>>>
    /\ ReplacementMaterials = EmptyMap
    /\ AssignementMaterials = [k \in {"K1", "K2"} |-> IF k = "K1" THEN "M1" ELSE "M2"]
    /\ matLast = [op |-> "none", applied |-> FALSE]

\* No component, no input, no editor event yet
InputIdle ==
    /\ Inputs = <<>>
    /\ Components = <<>>
    /\ Downstream = {}
    /\ Tracker = [bConstructed |-> FALSE, IsObjectMoving |-> FALSE,
                  lastEvent |-> "none", bHeard |-> FALSE]
    /\ OwnerWorld = "Editor"
    /\ callLog = [op |-> "none"]

(***************************************************************************)
(* SpecLabel: one call of GetDefaultInputTypeFromLabel on a chosen label.  *)
(***************************************************************************)
InitLabel ==
    /\ InputName \in Labels
    /\ DefaultType = "Pending"
    /\ InstIdle
    /\ MatIdle
    /\ InputIdle

CallGetDefaultInputTypeFromLabel ==
    /\ DefaultType = "Pending"
    /\ DefaultType' = GetDefaultInputTypeFromLabel(InputName)
    /\ UNCHANGED <<InputName, instVars, matVars, inputVars>>

NextLabel == CallGetDefaultInputTypeFromLabel

SpecLabel == InitLabel /\ [][NextLabel]_vars

\* C5: the returned type is the one of the first matching rule, in the order
\* curve, landscape/terrain/heightfield, world/outliner, asset/hda, and Geometry
\* when no rule matches; matching ignores case; Invalid and Skeletal are never
\* returned.
C5_LabelPriority ==
    DefaultType # "Pending" =>
        LET isCurve     == Contains(InputName, curvePrefix)
            isLandscape == \E w \in {landscapePrefix, landscapePrefix2, landscapePrefix3} :
                              Contains(InputName, w)
            isWorld     == \E w \in {worldPrefix, worldPrefix2} : Contains(InputName, w)
            isAsset     == \E w \in {assetPrefix, assetPrefix2} : Contains(InputName, w)
        IN  /\ (DefaultType = "Curve") <=> isCurve
            /\ (DefaultType = "Landscape") <=> (~isCurve /\ isLandscape)
            /\ (DefaultType = "World") <=> (~isCurve /\ ~isLandscape /\ isWorld)
            /\ (DefaultType = "Asset") <=> (~isCurve /\ ~isLandscape /\ ~isWorld /\ isAsset)
            /\ (DefaultType = "Geometry") <=>
                   (~isCurve /\ ~isLandscape /\ ~isWorld /\ ~isAsset)
            /\ DefaultType \in InputTypes \ {"Invalid", "Skeletal"}

\* A label holding both an asset word and a world word in mixed case, for
\* which the function answered World.
C5_Witness ==
    /\ DefaultType = "World"
    /\ InputName = <<"H","D","A">> \o <<"_">> \o <<"W","O","R","L","D">>

(***************************************************************************)
(* SpecInstancer: the variation lambdas of CreateInstancerOutputWidget,    *)
(* run in any order on one instanced output.                               *)
(***************************************************************************)
MaxVariations == 3

\* Objects that can be dropped or picked as a variation; 0 is nullptr
VariationObjectPool == {0, 1, 2}

\* Transform offsets: Identity and one other value
TransformPool == {Identity, 1}

InitInstancer ==
    /\ InstIdle
    /\ LabelIdle
    /\ MatIdle
    /\ InputIdle

\* The add lambda without its second Insert: the offsets array is left behind
AddObjectAt_NoOffset(AtIndex, InObject) ==
    /\ VariationObjects' = InsertAt(VariationObjects, AtIndex, InObject)
    /\ VariationTransformOffsets' = VariationTransformOffsets
    /\ bChanged' = TRUE

\* AddObjectAt lambda.  UpdateVariationAssignements only rewrites
\* TransformVariationIndices, which no handler here reads.
AddObjectAt(AtIndex, InObject) ==
    /\ VariationObjects' = InsertAt(VariationObjects, AtIndex, InObject)
    /\ VariationTransformOffsets' = InsertAt(VariationTransformOffsets, AtIndex, Identity)
    /\ bChanged' = TRUE

\* The "Add Another Instance" button of variation VariationIdx: it duplicates
\* the variation it sits on.
OnAddButton ==
    \E VariationIdx \in 0..Len(VariationObjects) :
        LET ObjToAdd == IF IsValidIndex(VariationObjects, VariationIdx)
                        THEN VariationObjects[VariationIdx + 1]
                        ELSE 0
        IN  /\ Len(VariationObjects) < MaxVariations
            /\ AddObjectAt(VariationIdx, ObjToAdd)
            /\ instLast' = [op |-> "add", idx |-> VariationIdx, obj |-> ObjToAdd]
            /\ UNCHANGED <<labelVars, matVars, inputVars>>

\* RemoveObjectAt lambda
RemoveObjectAt(AtIndex) ==
    IF AtIndex < 0 \/ AtIndex >= Len(VariationObjects)
    THEN UNCHANGED <<VariationObjects, VariationTransformOffsets, bChanged>>
    ELSE IF Len(VariationObjects) = 1
    THEN UNCHANGED <<VariationObjects, VariationTransformOffsets, bChanged>>
    ELSE /\ VariationObjects' = RemoveAt(VariationObjects, AtIndex)
         /\ VariationTransformOffsets' = RemoveAt(VariationTransformOffsets, AtIndex)
         /\ bChanged' = TRUE

\* The "Remove Last Instance" button; the index may be stale or out of range
OnRemoveButton ==
    \E VariationIdx \in -1..Len(VariationObjects) :
        /\ RemoveObjectAt(VariationIdx)
        /\ instLast' = [op |-> "remove", idx |-> VariationIdx, obj |-> 0]
        /\ UNCHANGED <<labelVars, matVars, inputVars>>

\* SetObjectAt lambda
SetObjectAt(AtIndex, InObject) ==
    IF ~IsValidIndex(VariationObjects, AtIndex)
    THEN UNCHANGED <<VariationObjects, VariationTransformOffsets, bChanged>>
    ELSE /\ VariationObjects' = [VariationObjects EXCEPT ![AtIndex + 1] = InObject]
         /\ bChanged' = TRUE
         /\ UNCHANGED VariationTransformOffsets

\* An asset dropped on the drop target of variation VariationIdx
OnAssetDropped ==
    \E VariationIdx \in -1..Len(VariationObjects), InObject \in VariationObjectPool :
        /\ SetObjectAt(VariationIdx, InObject)
        /\ instLast' = [op |-> "set", idx |-> VariationIdx, obj |-> InObject]
        /\ UNCHANGED <<labelVars, matVars, inputVars>>

\* ChangeTransformOffsetAt lambda; SetTransformOffsetAt answers whether the
\* value changed
ChangeTransformOffsetAt ==
    \E AtIndex \in 0..(Len(VariationObjects) - 1), Value \in TransformPool :
        LET valid    == IsValidIndex(VariationTransformOffsets, AtIndex)
            bChanges == valid /\ VariationTransformOffsets[AtIndex + 1] # Value
        IN  /\ IF bChanges
               THEN /\ VariationTransformOffsets' =
                          [VariationTransformOffsets EXCEPT ![AtIndex + 1] = Value]
                    /\ bChanged' = TRUE
               ELSE UNCHANGED <<VariationTransformOffsets, bChanged>>
            /\ instLast' = [op |-> "offset", idx |-> AtIndex, obj |-> 0]
            /\ UNCHANGED <<VariationObjects, labelVars, matVars, inputVars>>

\* The instance translator has rebuilt the instancers and cleared the flag
InstancedOutputProcessed ==
    /\ bChanged
    /\ bChanged' = FALSE
    /\ instLast' = [op |-> "processed", idx |-> 0, obj |-> 0]
    /\ UNCHANGED <<VariationObjects, VariationTransformOffsets, labelVars, matVars, inputVars>>

NextInstancer ==
    \/ OnAddButton
    \/ OnRemoveButton
    \/ OnAssetDropped
    \/ ChangeTransformOffsetAt
    \/ InstancedOutputProcessed

SpecInstancer == InitInstancer /\ [][NextInstancer]_vars

\* What one step of the add, remove and set lambdas must do
C9_Step ==
    /\ instLast'.op = "add" =>
          /\ Len(VariationObjects') = Len(VariationObjects) + 1
          /\ VariationTransformOffsets'[instLast'.idx + 1] = Identity
          /\ VariationObjects'[instLast'.idx + 1] = instLast'.obj
    /\ instLast'.op = "remove" =>
          IF Len(VariationObjects) = 1 \/ ~IsValidIndex(VariationObjects, instLast'.idx)
          THEN UNCHANGED <<VariationObjects, VariationTransformOffsets, bChanged>>
          ELSE Len(VariationObjects') = Len(VariationObjects) - 1
    /\ instLast'.op = "set" => Len(VariationObjects') = Len(VariationObjects)
    /\ (instLast'.op \in {"add", "remove", "set"}
          /\ <<VariationObjects, VariationTransformOffsets>>' #
                <<VariationObjects, VariationTransformOffsets>>) => bChanged'

\* C9: after any sequence of the panel's add, remove and set actions the
\* variation list holds at least one object and has the length of the offsets
\* list; an added variation gets the identity offset; a remove with one
\* variation left or with an index outside the list changes nothing; a set keeps
\* the number of variations; every change of the lists marks the output changed.
C9_VariationLists ==
    /\ [](Len(VariationObjects) >= 1
          /\ Len(VariationObjects) = Len(VariationTransformOffsets))
    /\ [][C9_Step]_vars

\* A third variation was just added to a list that holds an offset other than
\* the identity, and the output is marked changed.
C9_Witness ==
    /\ instLast.op = "add"
    /\ Len(VariationObjects) = 3
    /\ \E i \in 1..Len(VariationTransformOffsets) : VariationTransformOffsets[i] # Identity
    /\ bChanged

(***************************************************************************)
(* SpecMaterial: materials dropped on, and reset in, the slots of the      *)
(* static meshes of one output.                                            *)
(***************************************************************************)
\* Materials that can be dropped; "None" is an object that is no material
DroppableMaterials == {"None", "M1", "R"}

\* The cook recorded an assignment for both shops or for K1 only; the second
\* mesh has a mesh component or not
InitMaterial ==
    /\ LabelIdle
    /\ InstIdle
    /\ InputIdle
    /\ StaticMaterials = <<[i \in 1..NumSlots |-> CookedMaterial(i - 1)], <<"M2">>>>
    /\ \E c2 \in BOOLEAN :
          /\ OutputObjects = <<[mesh |-> 1, bHasComponent |-> TRUE],
                               [mesh |-> 2, bHasComponent |-> c2]>>
          /\ ComponentMaterials =
                <<StaticMaterials[1], IF c2 THEN StaticMaterials[2] ELSE <<>>>>
    /\ ReplacementMaterials = EmptyMap
    /\ AssignementMaterials \in
          { [k \in {"K1", "K2"} |-> IF k = "K1" THEN "M1" ELSE "M2"],
            [k \in {"K1"} |-> "M1"] }
    /\ matLast = [op |-> "none", applied |-> FALSE]

\* UStaticMesh::SetMaterial / UMeshComponent::SetMaterial on a slot array
SetMaterial(slots, idx, material) ==
    IF IsValidIndex(slots, idx) THEN [slots EXCEPT ![idx + 1] = material] ELSE slots

\* The key OnMaterialInterfaceDropped files the replacement under
DroppedKeys(Old) ==
    IF KeysOf(ReplacementMaterials, Old) # {}
    THEN KeysOf(ReplacementMaterials, Old)
    ELSE IF KeysOf(AssignementMaterials, Old) # {}
    THEN KeysOf(AssignementMaterials, Old)
    ELSE IF Old = DefaultMaterial
    THEN {HAPI_UNREAL_DEFAULT_MATERIAL_NAME}
    ELSE {GetName(Old)}

\* FHoudiniOutputDetails::OnMaterialInterfaceDropped (static mesh)
OnMaterialInterfaceDropped(InObject, StaticMesh, MaterialIdx) ==
    LET slots == StaticMaterials[StaticMesh]
        seen  == [op |-> "drop", applied |-> FALSE]
        done  == [op |-> "drop", applied |-> TRUE, mesh |-> StaticMesh,
                  idx |-> MaterialIdx, old |-> "None", unreplaced |-> {}]
    IN
    IF InObject = "None" \/ ~IsValidIndex(slots, MaterialIdx)
    THEN /\ matLast' = seen
         /\ UNCHANGED <<StaticMaterials, ComponentMaterials, OutputObjects,
                        ReplacementMaterials, AssignementMaterials>>
    ELSE
    LET Old == slots[MaterialIdx + 1] IN
    IF Old = InObject
    THEN /\ matLast' = seen
         /\ UNCHANGED <<StaticMaterials, ComponentMaterials, OutputObjects,
                        ReplacementMaterials, AssignementMaterials>>
    ELSE
    \E MaterialString \in DroppedKeys(Old) :
        /\ ReplacementMaterials' = MapAdd(ReplacementMaterials, MaterialString, InObject)
        /\ StaticMaterials' =
              [m \in DOMAIN StaticMaterials |->
                  IF m = StaticMesh \/ \E o \in DOMAIN OutputObjects :
                                           /\ ~OutputObjects[o].bHasComponent
                                           /\ OutputObjects[o].mesh = m
                  THEN SetMaterial(StaticMaterials[m], MaterialIdx, InObject)
                  ELSE StaticMaterials[m]]
        /\ ComponentMaterials' =
              [o \in DOMAIN ComponentMaterials |->
                  IF OutputObjects[o].bHasComponent /\ OutputObjects[o].mesh = StaticMesh
                  THEN SetMaterial(ComponentMaterials[o], MaterialIdx, InObject)
                  ELSE ComponentMaterials[o]]
        /\ matLast' = [done EXCEPT !.old = Old,
                                    !.unreplaced = KeysOf(AssignementMaterials, Old)
                                                      \ DOMAIN ReplacementMaterials]
        /\ UNCHANGED <<OutputObjects, AssignementMaterials>>

\* FHoudiniOutputDetails::OnResetMaterialInterfaceClicked (static mesh)
OnResetMaterialInterfaceClicked(StaticMesh, MaterialIdx) ==
    LET slots == StaticMaterials[StaticMesh]
        seen  == [op |-> "reset", applied |-> FALSE]
        done  == [op |-> "reset", applied |-> TRUE, mesh |-> StaticMesh,
                  idx |-> MaterialIdx, key |-> "",
                  after |-> IF matLast.op = "drop" /\ matLast.applied
                            THEN matLast ELSE [op |-> "other"]]
    IN
    IF ~IsValidIndex(slots, MaterialIdx)
       \/ KeysOf(ReplacementMaterials, slots[MaterialIdx + 1]) = {}
    THEN /\ matLast' = seen
         /\ UNCHANGED <<StaticMaterials, ComponentMaterials, OutputObjects,
                        ReplacementMaterials, AssignementMaterials>>
    ELSE
    \E MaterialString \in KeysOf(ReplacementMaterials, slots[MaterialIdx + 1]) :
        LET AssignMaterial ==
                IF MaterialString \in DOMAIN AssignementMaterials
                THEN AssignementMaterials[MaterialString]
                ELSE DefaultMaterial
        IN  /\ ReplacementMaterials' = MapRemove(ReplacementMaterials, MaterialString)
            /\ StaticMaterials' =
                  [StaticMaterials EXCEPT ![StaticMesh][MaterialIdx + 1] = AssignMaterial]
            /\ ComponentMaterials' =
                  [o \in DOMAIN ComponentMaterials |->
                      IF OutputObjects[o].bHasComponent /\ OutputObjects[o].mesh = StaticMesh
                      THEN SetMaterial(ComponentMaterials[o], MaterialIdx, AssignMaterial)
                      ELSE ComponentMaterials[o]]
            /\ matLast' = [done EXCEPT !.key = MaterialString]
            /\ UNCHANGED <<OutputObjects, AssignementMaterials>>

DropMaterial ==
    \E InObject \in DroppableMaterials, StaticMesh \in DOMAIN StaticMaterials,
       MaterialIdx \in 0..NumSlots :
        /\ OnMaterialInterfaceDropped(InObject, StaticMesh, MaterialIdx)
        /\ UNCHANGED <<labelVars, instVars, inputVars>>

ResetMaterial ==
    \E StaticMesh \in DOMAIN StaticMaterials, MaterialIdx \in 0..NumSlots :
        /\ OnResetMaterialInterfaceClicked(StaticMesh, MaterialIdx)
        /\ UNCHANGED <<labelVars, instVars, inputVars>>

NextMaterial == DropMaterial \/ ResetMaterial

SpecMaterial == InitMaterial /\ [][NextMaterial]_vars

\* C8: a slot holds material M, recorded in the assignment materials under a
\* key K that has no replacement yet; a valid material R # M is dropped on the
\* slot and the slot is then reset: the slot holds M again and the replacement
\* map has no entry for K.  And a reset that finds no assignment material under
\* the key it took from the replacement map leaves the default material.
C8_RoundTrip ==
    (matLast.op = "reset" /\ matLast.applied) =>
        LET slot == StaticMaterials[matLast.mesh][matLast.idx + 1]
            drop == matLast.after
        IN  /\ ( /\ drop.op = "drop"
                 /\ drop.mesh = matLast.mesh /\ drop.idx = matLast.idx )
               => \A K \in drop.unreplaced :
                     slot = drop.old /\ K \notin DOMAIN ReplacementMaterials
            /\ matLast.key \notin DOMAIN AssignementMaterials => slot = DefaultMaterial

(***************************************************************************)
(* The input translator.                                                   *)
(*                                                                         *)
(* A UHoudiniInput is a record; its input objects are records held in one  *)
(* array per input type, an Actor input object holding the input objects   *)
(* of its components in Comps.  The translator's functions are operators   *)
(* on a call state `st`: the input being worked on, the components, the    *)
(* downstream links, and what the call did to the Houdini session.  The    *)
(* session itself is not part of the model: the nodes deleted and the      *)
(* connections made are recorded, and the answers of the session are       *)
(* inputs of each call (st.Fail: the HAPI calls that fail during it).      *)
(***************************************************************************)
\* The node id of "no node"
NoNode == -1

Range(s) == {s[k] : k \in DOMAIN s}

\* The HAPI calls whose failure is an input of a translator call.  CommitGeo
\* stands for the calls that fill a created input node (SetPartInfo,
\* AddAttribute, SetAttribute*Data, CommitGeo), SetParm for the
\* SetParm*Value calls, QueryNodeInput for a query that fails or answers no
\* node, IsHoudiniNodeValid for a node the session no longer knows.
HapiCalls == {"CreateInputNode", "CommitGeo", "CreateNode", "SetParm",
              "SetObjectTransform", "ConnectNodeInput", "QueryNodeInput",
              "IsHoudiniNodeValid"}

\* FHoudiniEngineUtils::HapiGetParentNodeId: the OBJ node of a SOP node
HapiGetParentNodeId(NodeId) == IF NodeId < 0 THEN NoNode ELSE NodeId + 1

\* FHoudiniEngineUtils::IsHoudiniNodeValid
IsHoudiniNodeValid(NodeId, Fail) == NodeId >= 0 /\ "IsHoudiniNodeValid" \notin Fail

\* The id the session hands out for a node created for the thing at `path` of
\* input `InputId`: never the id the thing holds already
NodeBase(InputId, path) ==
    100 * InputId + (IF Len(path) >= 1 THEN 20 * path[1] ELSE 0)
                  + (IF Len(path) >= 2 THEN 4 * path[2] ELSE 0)
FreshNodeId(InputId, path, Previous) ==
    IF Previous = NodeBase(InputId, path) THEN NodeBase(InputId, path) + 2
    ELSE NodeBase(InputId, path)

\* The input types that have an input object array
ObjectArrayTypes == InputTypes \ {"Invalid"}

\* A pointer that is neither null nor pending kill
IsValidObject(o) == o.Life = "valid"

\* UHoudiniInputObject::MarkChanged
MarkObjectChanged(o, b) == [o EXCEPT !.bHasChanged = b, !.bNeedsToTriggerUpdate = b]

\* UHoudiniInputObject::MarkTransformChanged
MarkTransformChanged(o, b) == [o EXCEPT !.bTransformChanged = b]

\* UHoudiniInput::MarkChanged
MarkChanged(input, b) == [input EXCEPT !.bHasChanged = b, !.bNeedsToTriggerUpdate = b]

\* UHoudiniInput::HasInputTypeChanged
HasInputTypeChanged(input) ==
    input.PreviousType # "Invalid" /\ input.PreviousType # input.Type

\* UHoudiniInput::MarkAllInputObjectsChanged
MarkAllInputObjectsChanged(input, b) ==
    IF input.Type \notin ObjectArrayTypes
    THEN [input EXCEPT !.bDataUploadNeeded = b]
    ELSE [input EXCEPT !.bDataUploadNeeded = b,
                       !.Objects[input.Type] =
                           [k \in DOMAIN @ |-> IF IsValidObject(@[k])
                                               THEN MarkObjectChanged(@[k], b)
                                               ELSE @[k]]]

\* The input objects of an array with those of the actors' components
AllObjects(objects) ==
    Range(objects) \cup UNION {Range(objects[k].Comps) : k \in DOMAIN objects}

\* UHoudiniInput::IsDataUploadNeeded
IsDataUploadNeeded(input) ==
    \/ input.bDataUploadNeeded
    \/ /\ input.Type \in ObjectArrayTypes
       /\ \E o \in AllObjects(input.Objects[input.Type]) : IsValidObject(o) /\ o.bHasChanged

\* UHoudiniInput::IsTransformUploadNeeded
IsTransformUploadNeeded(input) ==
    /\ input.Type \in ObjectArrayTypes
    /\ \E o \in AllObjects(input.Objects[input.Type]) :
          IsValidObject(o) /\ o.bTransformChanged

\* The input object at a path: <<j>> is object j of the array, <<j, c>> is
\* component c of the actor at j
ObjectAt(input, InputType, path) ==
    IF Len(path) = 1 THEN input.Objects[InputType][path[1]]
    ELSE input.Objects[InputType][path[1]].Comps[path[2]]

WithObjectAt(input, InputType, path, o) ==
    IF Len(path) = 1 THEN [input EXCEPT !.Objects[InputType][path[1]] = o]
    ELSE [input EXCEPT !.Objects[InputType][path[1]].Comps[path[2]] = o]

\* The steps of UploadChangedInputs on an input, none of them taken
NoSteps == [dataTried |-> FALSE, dataOk |-> TRUE, xformTried |-> FALSE, xformOk |-> TRUE,
            propsOk |-> TRUE]

\* The state of a translator call on one input
CallState(input, comps, down, Fail) ==
    [input |-> input, comps |-> comps, down |-> down, Fail |-> Fail,
     ret |-> TRUE,          \* what the last function called answered
     ok |-> TRUE,           \* bSuccess of the running upload function
     ids |-> <<>>,          \* the local TArray<int32> of the running function
     atEntry |-> <<>>,      \* the input objects UploadInputData found
     created |-> <<>>,      \* CreatedNodeIds when its loop over them ended
     uploaded |-> {},       \* paths handed to UploadHoudiniInputObject
     deleted |-> {},        \* node ids handed to DeleteNode
     connected |-> {},      \* ConnectNodeInput / SetParmNodeValue calls made
     destroyCalls |-> {},   \* the calls of DestroyInputNodes
     assetCalls |-> {},     \* the calls of HapiCreateInputNodeForHoudiniAssetComponent
     steps |-> NoSteps]     \* the steps UploadChangedInputs took on the input

\* UHoudiniAssetComponent::ClearDownstreamHoudiniAsset of component c
ClearDownstreamHoudiniAsset(down, c) == {p \in down : p[1] # c}

\* FHoudiniInputTranslator::DisconnectInput.  The disconnection itself only
\* changes the session.
DisconnectInput(st, InputType) ==
    IF ~IsValidObject(st.input) THEN [st EXCEPT !.ret = FALSE]
    ELSE IF InputType = "Asset"
    THEN [st EXCEPT !.down = ClearDownstreamHoudiniAsset(@, st.input.Outer),
                    !.input.InputNodeId = NoNode,
                    !.ret = TRUE]
    ELSE [st EXCEPT !.ret = TRUE]

\* DestroyInputNodes without the guard that spares an input HDA
KeepsInputHDA_Never(InputType) == FALSE

\* DestroyInputNodes: "If we're destroying an asset input, don't destroy anything"
KeepsInputHDA(InputType) == InputType = "Asset"

\* The loop of DestroyInputNodes over the input objects, from object k on;
\* st.ids is CreatedInputDataAssetIds
RECURSIVE DestroyObjectNodes(_, _, _)
DestroyObjectNodes(st, InputType, k) ==
    IF k > Len(st.input.Objects[InputType]) THEN st
    ELSE
    LET o == st.input.Objects[InputType][k] IN
    IF ~IsValidObject(o) THEN DestroyObjectNodes(st, InputType, k + 1)
    ELSE IF o.Type = "HoudiniAssetComponent"
    THEN DestroyObjectNodes(
             [st EXCEPT !.ids = SelectSeq(@, LAMBDA id : id # o.InputNodeId),
                        !.input.Objects[InputType][k] =
                            [o EXCEPT !.InputNodeId = NoNode, !.InputObjectNodeId = NoNode]],
             InputType, k + 1)
    ELSE
    LET o1 == IF o.Type = "Actor"
              THEN [o EXCEPT !.Comps = [c \in DOMAIN @ |->
                                           IF IsValidObject(@[c])
                                           THEN [@[c] EXCEPT !.InputNodeId = NoNode]
                                           ELSE @[c]]]
              ELSE o
        del1 == IF o.InputNodeId >= 0 THEN {o.InputNodeId} ELSE {}
        \* the parent is asked for after the id was reset
        ParentNodeId == HapiGetParentNodeId(NoNode)
        del2 == IF o.InputObjectNodeId >= 0
                THEN {o.InputObjectNodeId}
                        \cup (IF IsHoudiniNodeValid(ParentNodeId, st.Fail)
                              THEN {ParentNodeId} ELSE {})
                ELSE {}
        o2 == MarkObjectChanged(
                  [o1 EXCEPT !.InputNodeId = NoNode, !.InputObjectNodeId = NoNode], TRUE)
    IN  DestroyObjectNodes(
            [st EXCEPT !.deleted = @ \cup del1 \cup del2,
                       !.input.Objects[InputType][k] = o2],
            InputType, k + 1)

\* The end of DestroyInputNodes, once its loop over the input objects left s1:
\* the created data nodes and the node of the input are deleted, and st.ids is
\* again the array `ids` of the caller
DestroyCreatedNodes(s1, ids) ==
    LET CreatedInputId == s1.input.InputNodeId
        ParentId == HapiGetParentNodeId(CreatedInputId)
        del == {id \in Range(s1.ids) : id >= 0}
    IN  IF CreatedInputId >= 0
        THEN [s1 EXCEPT !.deleted = @ \cup del \cup {CreatedInputId}
                                       \cup (IF IsHoudiniNodeValid(ParentId, s1.Fail)
                                             THEN {ParentId} ELSE {}),
                        !.input.InputNodeId = NoNode,
                        !.ids = ids,
                        !.ret = TRUE]
        ELSE [s1 EXCEPT !.deleted = @ \cup del, !.ids = ids, !.ret = TRUE]

\* FHoudiniInputTranslator::DestroyInputNodes, the nodes it deletes in st.deleted
DestroyInputNodesBody(st, InputType) ==
    IF ~IsValidObject(st.input) THEN [st EXCEPT !.ret = FALSE]
    ELSE IF ~st.input.bCanDeleteHoudiniNodes THEN [st EXCEPT !.ret = FALSE]
    ELSE IF KeepsInputHDA(InputType) THEN [st EXCEPT !.ret = TRUE]
    ELSE IF InputType \in ObjectArrayTypes
    THEN DestroyCreatedNodes(
             DestroyObjectNodes([st EXCEPT !.ids = st.input.CreatedDataNodeIds], InputType, 1),
             st.ids)
    ELSE DestroyCreatedNodes([st EXCEPT !.ids = st.input.CreatedDataNodeIds], st.ids)

\* The call of DestroyInputNodes on st that left r, recorded
RecordDestroyCall(r, st, InputType) ==
    [r EXCEPT !.deleted = @ \cup st.deleted,
              !.destroyCalls = @ \cup {[InputType |-> InputType, before |-> st.input,
                                        after |-> r.input, ret |-> r.ret,
                                        deleted |-> r.deleted]}]

\* DestroyInputNodes, its call recorded
DestroyInputNodes(st, InputType) ==
    RecordDestroyCall(DestroyInputNodesBody([st EXCEPT !.deleted = {}], InputType),
                      st, InputType)

\* FHoudiniInputTranslator::DisconnectAndDestroyInput: the answers of
\* DisconnectInput and of DestroyInputNodes are and-ed
DisconnectAndDestroyInput(st, InputType) ==
    [DestroyInputNodes(DisconnectInput(st, InputType), InputType)
        EXCEPT !.ret = DisconnectInput(st, InputType).ret /\ @]

\* FHoudiniInputTranslator::ChangeInputType
ChangeInputType(st, bForce) ==
    IF ~IsValidObject(st.input) THEN [st EXCEPT !.ret = FALSE]
    ELSE IF ~HasInputTypeChanged(st.input) /\ ~bForce THEN [st EXCEPT !.ret = TRUE]
    ELSE [DisconnectAndDestroyInput(st, st.input.PreviousType)
             EXCEPT !.input = MarkAllInputObjectsChanged(@, TRUE), !.ret = TRUE]

(***************************************************************************)
(* Uploading input objects.                                                *)
(***************************************************************************)
\* The object merge node the session plugged into input Idx of a merge node
ObjectMergeId(NodeId, Idx) == 1000 * (Idx + 1) + NodeId

\* FHoudiniInputTranslator::ConnectInputNode
ConnectInputNode(st) ==
    LET input == st.input IN
    IF ~IsValidObject(input) THEN [st EXCEPT !.ret = FALSE]
    ELSE IF input.AssetNodeId < 0 THEN [st EXCEPT !.ret = FALSE]
    ELSE IF input.InputNodeId < 0 THEN [st EXCEPT !.ret = FALSE]
    ELSE IF input.bIsObjectPathParameter
    THEN IF "SetParm" \in st.Fail THEN [st EXCEPT !.ret = FALSE]
         ELSE [st EXCEPT !.ret = TRUE,
                         !.connected = @ \cup {[to |-> input.AssetNodeId, at |-> input.ParmId,
                                                from |-> input.InputNodeId]}]
    ELSE IF "ConnectNodeInput" \in st.Fail THEN [st EXCEPT !.ret = FALSE]
         ELSE [st EXCEPT !.ret = TRUE,
                         !.connected = @ \cup {[to |-> input.AssetNodeId, at |-> input.InputIndex,
                                                from |-> input.InputNodeId]}]

\* FHoudiniInputTranslator::CreateInputNodeForReference on the object at path;
\* the answer is <<bool, InputNodeId, deleted nodes>>
CreateInputNodeForReference(InputNodeId, NewNodeId, Fail) ==
    IF "CreateInputNode" \in Fail THEN <<FALSE, InputNodeId, {}>>
    ELSE IF ~IsHoudiniNodeValid(NewNodeId, Fail) THEN <<FALSE, InputNodeId, {}>>
    ELSE LET del == IF InputNodeId >= 0
                    THEN {InputNodeId, HapiGetParentNodeId(InputNodeId)} ELSE {}
         IN  IF "CommitGeo" \in Fail THEN <<FALSE, InputNodeId, del>>
             ELSE <<TRUE, NewNodeId, del>>

\* FUnrealMeshTranslator::HapiCreateInputNodeForStaticMesh: <<bool, InputNodeId>>
MeshTranslatorCreateInputNode(InputNodeId, NewNodeId, Fail) ==
    IF "CreateInputNode" \in Fail THEN <<FALSE, InputNodeId>>
    ELSE IF "CommitGeo" \in Fail THEN <<FALSE, NewNodeId>>
    ELSE <<TRUE, NewNodeId>>

\* FHoudiniInputTranslator::HapiCreateInputNodeForStaticMesh, for an input
\* object that holds a static mesh and no blueprint
HapiCreateInputNodeForStaticMesh(st, InputType, path) ==
    LET o == ObjectAt(st.input, InputType, path)
        bImportAsReference == st.input.bImportAsReference
        NewNodeId == FreshNodeId(st.input.Id, path, o.InputNodeId)
    IN
    IF ~IsValidObject(o) THEN [st EXCEPT !.ret = FALSE]
    ELSE IF o.Target # "valid" THEN [st EXCEPT !.ret = TRUE]
    ELSE
    LET ref  == CreateInputNodeForReference(o.InputNodeId, NewNodeId, st.Fail)
        mesh == MeshTranslatorCreateInputNode(o.InputNodeId, NewNodeId, st.Fail)
        bSuccess == IF bImportAsReference THEN ref[1] ELSE mesh[1]
        NodeId   == IF bImportAsReference THEN ref[2] ELSE mesh[2]
        del      == IF bImportAsReference THEN ref[3] ELSE {}
        o1 == [o EXCEPT !.InputNodeId = NodeId,
                        !.bImportAsReference = bImportAsReference,
                        !.InputObjectNodeId = HapiGetParentNodeId(NodeId)]
    IN  [st EXCEPT !.input = WithObjectAt(st.input, InputType, path, o1),
                   !.deleted = @ \cup del,
                   !.ret = IF o.Transform # Identity /\ "SetObjectTransform" \in st.Fail
                           THEN FALSE ELSE bSuccess]

\* FHoudiniInputTranslator::HapiCreateInputNodeForSceneComponent
HapiCreateInputNodeForSceneComponent(st, InputType, path) ==
    LET o == ObjectAt(st.input, InputType, path) IN
    IF ~IsValidObject(o) THEN [st EXCEPT !.ret = FALSE]
    ELSE IF o.Target # "valid" THEN [st EXCEPT !.ret = TRUE]
    ELSE [st EXCEPT !.ret = FALSE]

\* FHoudiniInputTranslator::HapiCreateInputNodeForCamera
HapiCreateInputNodeForCamera(st, InputType, path) ==
    LET o == ObjectAt(st.input, InputType, path)
        CameraNodeId == FreshNodeId(st.input.Id, path, o.InputObjectNodeId)
    IN
    IF ~IsValidObject(o) THEN [st EXCEPT !.ret = FALSE]
    ELSE IF o.Target # "valid" THEN [st EXCEPT !.ret = TRUE]
    ELSE IF "CreateNode" \in st.Fail THEN [st EXCEPT !.ret = FALSE]
    ELSE IF "SetParm" \in st.Fail THEN [st EXCEPT !.ret = FALSE]
    ELSE IF "SetObjectTransform" \in st.Fail THEN [st EXCEPT !.ret = FALSE]
    ELSE [st EXCEPT !.input = WithObjectAt(st.input, InputType, path,
                                  [o EXCEPT !.InputNodeId = NoNode,
                                            !.InputObjectNodeId = CameraNodeId]),
                    !.ret = TRUE]

\* UHoudiniAssetComponent::NeedsInitialization
NeedsInitialization(comp) == comp.AssetState \in {"NeedInstantiation", "PreInstantiation"}

\* UHoudiniAssetComponent::NeedUpdate
NeedUpdate(comp) == comp.AssetState = "NeedCook"

\* The self-input test with the comparison dropped
IsSameAsset_Never(InputHAC, OuterHAC) == FALSE

\* "Do not allow using ourself as an input": the two components have one asset id
IsSameAsset(InputHAC, OuterHAC) == InputHAC.AssetId = OuterHAC.AssetId

\* FHoudiniInputTranslator::HapiCreateInputNodeForHoudiniAssetComponent
HapiCreateInputNodeForHoudiniAssetComponentBody(st, InputType, path) ==
    LET InObject == ObjectAt(st.input, InputType, path)
        HoudiniInput == st.input
        bImportAsReference == HoudiniInput.bImportAsReference
        bIsAssetInput == HoudiniInput.Type = "Asset"
    IN
    IF ~IsValidObject(InObject) THEN [st EXCEPT !.ret = FALSE]
    ELSE IF InObject.Target # "valid" \/ ~IsValidObject(st.comps[InObject.hac])
    THEN [st EXCEPT !.ret = TRUE]
    ELSE IF ~st.comps[InObject.hac].bCanDeleteHoudiniNodes THEN [st EXCEPT !.ret = TRUE]
    ELSE IF ~IsValidObject(HoudiniInput) THEN [st EXCEPT !.ret = TRUE]
    ELSE IF ~IsValidObject(st.comps[HoudiniInput.Outer]) THEN [st EXCEPT !.ret = TRUE]
    ELSE IF IsSameAsset(st.comps[InObject.hac], st.comps[HoudiniInput.Outer])
    THEN [st EXCEPT !.ret = FALSE]
    ELSE
    LET InputHAC == st.comps[InObject.hac]
        \* previously imported as a reference: delete that node
        del0 == IF InObject.InputNodeId > -1 /\ InObject.bImportAsReference
                THEN {InObject.InputNodeId, HapiGetParentNodeId(InObject.InputNodeId)}
                ELSE {}
        ref  == CreateInputNodeForReference(
                    NoNode, FreshNodeId(HoudiniInput.Id, path, InObject.InputNodeId), st.Fail)
        \* the object and the input once the reference node was handled
        o1   == IF bImportAsReference
                THEN [InObject EXCEPT !.bImportAsReference = TRUE,
                                      !.InputNodeId = ref[2],
                                      !.InputObjectNodeId = NoNode]
                ELSE [InObject EXCEPT !.bImportAsReference = FALSE]
        in1  == IF bImportAsReference /\ bIsAssetInput
                THEN [HoudiniInput EXCEPT !.InputNodeId = IF ref[1] THEN ref[2] ELSE NoNode]
                ELSE HoudiniInput
        s1   == [st EXCEPT !.input = WithObjectAt(in1, InputType, path, o1),
                           !.deleted = @ \cup del0 \cup (IF bImportAsReference THEN ref[3] ELSE {})]
    IN
    IF bImportAsReference /\ ~ref[1] THEN [s1 EXCEPT !.ret = FALSE]
    ELSE
    LET \* AddDownstreamHoudiniAsset, then the instantiation request
        s2 == [s1 EXCEPT !.down = @ \cup {<<InObject.hac, HoudiniInput.Outer>>}]
        s3 == IF InputHAC.AssetState = "NeedInstantiation"
              THEN [s2 EXCEPT !.comps[InObject.hac].AssetState = "PreInstantiation",
                              !.input = MarkChanged(@, TRUE)]
              ELSE s2
    IN
    IF NeedsInitialization(s3.comps[InObject.hac]) \/ NeedUpdate(s3.comps[InObject.hac])
    THEN [s3 EXCEPT !.ret = FALSE]
    ELSE
    LET in4 == IF ~bImportAsReference /\ bIsAssetInput
               THEN [s3.input EXCEPT !.InputNodeId = InputHAC.AssetId] ELSE s3.input
        o4  == IF ~bImportAsReference
               THEN [o1 EXCEPT !.InputNodeId = InputHAC.AssetId,
                               !.InputObjectNodeId = InputHAC.AssetId]
               ELSE [o1 EXCEPT !.InputObjectNodeId = o1.InputNodeId]
        s4  == [s3 EXCEPT !.input = WithObjectAt(in4, InputType, path, o4)]
    IN  IF bIsAssetInput THEN ConnectInputNode(s4)
        ELSE [s4 EXCEPT !.ret = o4.InputNodeId > -1]

\* The node ids a call of it can change
AssetNodeIds(input, InputType, path) ==
    <<input.InputNodeId, ObjectAt(input, InputType, path).InputNodeId,
      ObjectAt(input, InputType, path).InputObjectNodeId>>

\* The call of HapiCreateInputNodeForHoudiniAssetComponent on st that left r,
\* recorded
RecordAssetCall(r, st, InputType, path) ==
    LET InObject == ObjectAt(st.input, InputType, path)
    IN  [r EXCEPT !.assetCalls = @ \cup
            {[path |-> path, ret |-> r.ret,
              hac |-> InObject.hac,
              bTargetValid |-> InObject.Target = "valid" /\ IsValidObject(InObject),
              before |-> AssetNodeIds(st.input, InputType, path),
              after |-> AssetNodeIds(r.input, InputType, path),
              linked |-> r.down \ st.down,
              connected |-> r.connected \ st.connected]}]

\* HapiCreateInputNodeForHoudiniAssetComponent, its call recorded
HapiCreateInputNodeForHoudiniAssetComponent(st, InputType, path) ==
    RecordAssetCall(HapiCreateInputNodeForHoudiniAssetComponentBody(st, InputType, path),
                    st, InputType, path)

\* bSuccess &= the answer of the function just called
AndSuccess(r) == [r EXCEPT !.ok = @ /\ r.ret]

\* The end of a function whose answer is its bSuccess; st.ok is again the
\* bSuccess of the caller
ReturnSuccess(s1, ok) == [s1 EXCEPT !.ret = s1.ok, !.ok = ok]

RECURSIVE UploadHoudiniInputObject(_, _, _)

\* The loop of HapiCreateInputNodeForActor over the actor's components
RECURSIVE CommitActorComponents(_, _, _, _)
CommitActorComponents(st, InputType, j, c) ==
    IF c > Len(st.input.Objects[InputType][j].Comps) THEN st
    ELSE CommitActorComponents(UploadHoudiniInputObject(st, InputType, <<j, c>>),
                               InputType, j, c + 1)

\* FHoudiniInputTranslator::HapiCreateInputNodeForActor.  The actors of the
\* model are no Houdini asset actors, which leaves out the proxy mesh refresh.
HapiCreateInputNodeForActor(st, InputType, path) ==
    LET InObject == ObjectAt(st.input, InputType, path) IN
    IF ~IsValidObject(st.input) THEN [st EXCEPT !.ret = FALSE]
    ELSE IF ~IsValidObject(InObject) THEN [st EXCEPT !.ret = FALSE]
    ELSE IF InObject.Target # "valid" THEN [st EXCEPT !.ret = TRUE]
    ELSE [CommitActorComponents(st, InputType, path[1], 1)
             EXCEPT !.input.Objects[InputType][path[1]].Transform = InObject.TargetTransform,
                    !.ret = TRUE]

\* The end of UploadHoudiniInputObject, the function for the object's type
\* having left r: the node of the object is added to CreatedNodeIds (st.ids)
\* and the object is marked.  The actor case adds the ids of its components only.
MarkUploadedObject(r, InputType, path) ==
    LET o == ObjectAt(r.input, InputType, path)
        ids == IF r.ret /\ o.Type \in {"StaticMesh", "SceneComponent",
                                       "CameraComponent", "HoudiniAssetComponent"}
               THEN Append(r.ids, o.InputObjectNodeId)
               ELSE r.ids
        marked == IF r.ret THEN MarkObjectChanged(o, FALSE)
                  ELSE [o EXCEPT !.bNeedsToTriggerUpdate = FALSE]
    IN  [r EXCEPT !.ids = ids, !.input = WithObjectAt(r.input, InputType, path, marked)]

\* FHoudiniInputTranslator::UploadHoudiniInputObject
UploadHoudiniInputObject(st, InputType, path) ==
    LET InInputObject == ObjectAt(st.input, InputType, path)
        s0 == [st EXCEPT !.uploaded = @ \cup {path}]
    IN
    IF InInputObject.Life = "null" THEN [s0 EXCEPT !.ret = FALSE]
    ELSE MarkUploadedObject(
             CASE InInputObject.Type = "StaticMesh" ->
                      HapiCreateInputNodeForStaticMesh(s0, InputType, path)
               [] InInputObject.Type = "SceneComponent" ->
                      HapiCreateInputNodeForSceneComponent(s0, InputType, path)
               [] InInputObject.Type = "CameraComponent" ->
                      HapiCreateInputNodeForCamera(s0, InputType, path)
               [] InInputObject.Type = "HoudiniAssetComponent" ->
                      HapiCreateInputNodeForHoudiniAssetComponent(s0, InputType, path)
               [] InInputObject.Type = "Actor" ->
                      HapiCreateInputNodeForActor(s0, InputType, path)
               [] OTHER -> [s0 EXCEPT !.ret = TRUE],
             InputType, path)

\* UploadInputData keeping every object that has a node, changed or not
KeepsInputObject_NodeOnly(o) == o.InputObjectNodeId >= 0

\* UploadInputData: "If this object hasn't changed, no need to upload it but we
\* need to keep its created input node"
KeepsInputObject(o) == ~o.bHasChanged /\ o.InputObjectNodeId >= 0

\* The loop of UploadInputData over the components of a kept actor
RECURSIVE UploadActorComponents(_, _, _, _)
UploadActorComponents(st, InputType, j, c) ==
    IF c > Len(st.input.Objects[InputType][j].Comps) THEN st
    ELSE
    LET CurrentComp == st.input.Objects[InputType][j].Comps[c] IN
    IF ~IsValidObject(CurrentComp) THEN UploadActorComponents(st, InputType, j, c + 1)
    ELSE IF KeepsInputObject(CurrentComp)
    THEN UploadActorComponents(
             [st EXCEPT !.ids = Append(@, CurrentComp.InputObjectNodeId)], InputType, j, c + 1)
    ELSE UploadActorComponents(AndSuccess(UploadHoudiniInputObject(st, InputType, <<j, c>>)),
                               InputType, j, c + 1)

\* The loop of UploadInputData over the input objects; st.ids is CreatedNodeIds
RECURSIVE UploadInputObjects(_, _, _)
UploadInputObjects(st, InputType, j) ==
    IF j > Len(st.input.Objects[InputType]) THEN st
    ELSE
    LET CurrentInputObject == st.input.Objects[InputType][j] IN
    IF ~IsValidObject(CurrentInputObject) THEN UploadInputObjects(st, InputType, j + 1)
    ELSE IF KeepsInputObject(CurrentInputObject)
    THEN IF CurrentInputObject.Type = "Actor"
         THEN UploadInputObjects(UploadActorComponents(st, InputType, j, 1), InputType, j + 1)
         ELSE UploadInputObjects(
                  [st EXCEPT !.ids = Append(@, CurrentInputObject.InputObjectNodeId)],
                  InputType, j + 1)
    ELSE UploadInputObjects(AndSuccess(UploadHoudiniInputObject(st, InputType, <<j>>)),
                            InputType, j + 1)

\* The object merge nodes UploadInputData unplugs from the merge node: those
\* at the inputs From .. To - 1
UnpluggedMergeNodes(InputNodeId, From, To, Fail) ==
    IF "QueryNodeInput" \in Fail THEN {}
    ELSE {ObjectMergeId(InputNodeId, Idx) : Idx \in From .. (To - 1)}

\* The ConnectNodeInput calls of UploadInputData: the created nodes, but for
\* the merge node itself, plugged into consecutive inputs of the merge node
RECURSIVE MergeConnections(_, _, _)
MergeConnections(InputNodeId, ids, InputIndex) ==
    IF ids = <<>> THEN {}
    ELSE IF Head(ids) < 0 \/ Head(ids) = InputNodeId
    THEN MergeConnections(InputNodeId, Tail(ids), InputIndex)
    ELSE {[to |-> InputNodeId, at |-> InputIndex, from |-> Head(ids)]}
            \cup MergeConnections(InputNodeId, Tail(ids), InputIndex + 1)

\* The end of UploadInputData, once its loop over the input objects left s1
\* with CreatedNodeIds in s1.ids: the created nodes are plugged into the merge
\* node of the input, which is connected to the asset
ConnectCreatedNodes(s1) ==
    LET InputType == s1.input.Type
        s2 == [s1 EXCEPT !.created = s1.ids]
        CreatedNodeIds == s1.ids
        InInput == s1.input
        PreviousInputObjectNodeIds == InInput.CreatedDataNodeIds
    IN
    IF Len(CreatedNodeIds) = 0
    THEN LET del == IF ~HasInputTypeChanged(InInput)
                       /\ InputType \notin {"Asset", "World"}
                       /\ InInput.InputNodeId >= 0
                    THEN UnpluggedMergeNodes(InInput.InputNodeId, 0,
                                             Len(PreviousInputObjectNodeIds), s1.Fail)
                    ELSE {}
         IN  [s2 EXCEPT !.deleted = @ \cup del,
                        !.input.CreatedDataNodeIds = <<>>,
                        !.input.InputNodeId = NoNode,
                        !.ret = s1.ok]
    ELSE IF ~IsHoudiniNodeValid(InInput.InputNodeId, s1.Fail) /\ "CreateNode" \in s1.Fail
    THEN [s2 EXCEPT !.ret = FALSE]
    ELSE
    LET InputNodeId == IF ~IsHoudiniNodeValid(InInput.InputNodeId, s1.Fail)
                       THEN FreshNodeId(InInput.Id, <<>>, InInput.InputNodeId)
                       ELSE InInput.InputNodeId
        plugged == IF "ConnectNodeInput" \in s1.Fail THEN {}
                   ELSE MergeConnections(InputNodeId, CreatedNodeIds, 0)
        del == IF ~HasInputTypeChanged(InInput) /\ InputType # "Asset"
               THEN UnpluggedMergeNodes(InputNodeId, Len(CreatedNodeIds),
                                        Len(PreviousInputObjectNodeIds), s1.Fail)
               ELSE {}
    IN  ConnectInputNode([s2 EXCEPT !.input.InputNodeId = InputNodeId,
                                    !.input.CreatedDataNodeIds = CreatedNodeIds,
                                    !.connected = @ \cup plugged,
                                    !.deleted = @ \cup del])

\* FHoudiniInputTranslator::UploadInputData
UploadInputData(st) ==
    IF ~IsValidObject(st.input) THEN [st EXCEPT !.ret = FALSE]
    ELSE IF st.input.Type \notin ObjectArrayTypes THEN [st EXCEPT !.ret = FALSE]
    ELSE ConnectCreatedNodes(
             UploadInputObjects([st EXCEPT !.ok = TRUE, !.ids = <<>>,
                                           !.atEntry = st.input.Objects[st.input.Type]],
                                st.input.Type, 1))

(***************************************************************************)
(* Uploading transforms and input properties.                              *)
(***************************************************************************)
RECURSIVE UploadHoudiniInputTransform(_, _, _)

\* The loop of UploadHoudiniInputTransform over an actor's components;
\* st.ok is its bSuccess
RECURSIVE UploadComponentTransforms(_, _, _, _)
UploadComponentTransforms(st, InputType, j, c) ==
    IF c > Len(st.input.Objects[InputType][j].Comps) THEN st
    ELSE
    LET CurrentComponent == st.input.Objects[InputType][j].Comps[c] IN
    IF ~IsValidObject(CurrentComponent) \/ ~CurrentComponent.bTransformChanged
    THEN UploadComponentTransforms(st, InputType, j, c + 1)
    ELSE UploadComponentTransforms(
             AndSuccess(UploadHoudiniInputTransform(st, InputType, <<j, c>>)),
             InputType, j, c + 1)

\* The end of UploadHoudiniInputTransform, the case of the object's type having
\* left r: the object is marked
MarkTransformUploaded(r, InputType, path) ==
    LET o1 == ObjectAt(r.input, InputType, path)
        marked == IF r.ret
                  THEN [MarkTransformChanged(o1, FALSE) EXCEPT !.bNeedsToTriggerUpdate = FALSE]
                  ELSE [o1 EXCEPT !.bNeedsToTriggerUpdate = FALSE]
    IN  [r EXCEPT !.input = WithObjectAt(r.input, InputType, path, marked)]

\* FHoudiniInputTranslator::UploadHoudiniInputTransform
UploadHoudiniInputTransform(st, InputType, path) ==
    LET o == ObjectAt(st.input, InputType, path)
        cached == IF o.Target = "valid" THEN [o EXCEPT !.Transform = o.TargetTransform] ELSE o
    IN
    IF o.Life = "null" THEN [st EXCEPT !.ret = FALSE]
    ELSE MarkTransformUploaded(
             CASE o.Type = "StaticMesh" ->
                      [st EXCEPT !.ret = "SetObjectTransform" \notin st.Fail]
               [] o.Type = "Actor" ->
                      IF ~IsValidObject(o) THEN [st EXCEPT !.ret = FALSE]
                      ELSE ReturnSuccess(
                               UploadComponentTransforms(
                                   [st EXCEPT !.ok = TRUE,
                                              !.input = WithObjectAt(@, InputType, path, cached)],
                                   InputType, path[1], 1),
                               st.ok)
               [] o.Type = "SceneComponent" ->
                      IF ~IsValidObject(o) THEN [st EXCEPT !.ret = FALSE]
                      ELSE [st EXCEPT !.ret = TRUE,
                                      !.input = WithObjectAt(@, InputType, path, cached)]
               [] OTHER -> [st EXCEPT !.ret = TRUE],
             InputType, path)

\* The loop of UploadInputTransform over the input objects; st.ok is bSuccess
RECURSIVE UploadObjectTransforms(_, _, _)
UploadObjectTransforms(st, InputType, j) ==
    IF j > Len(st.input.Objects[InputType]) THEN st
    ELSE
    LET CurrentInputObject == st.input.Objects[InputType][j] IN
    IF ~IsValidObject(CurrentInputObject) \/ ~CurrentInputObject.bTransformChanged
    THEN UploadObjectTransforms(st, InputType, j + 1)
    ELSE UploadObjectTransforms(AndSuccess(UploadHoudiniInputTransform(st, InputType, <<j>>)),
                                InputType, j + 1)

\* FHoudiniInputTranslator::UploadInputTransform
UploadInputTransform(st) ==
    IF ~IsValidObject(st.input) THEN [st EXCEPT !.ret = FALSE]
    ELSE IF st.input.Type \notin ObjectArrayTypes THEN [st EXCEPT !.ret = FALSE]
    ELSE ReturnSuccess(UploadObjectTransforms([st EXCEPT !.ok = TRUE], st.input.Type, 1),
                       st.ok)

\* UHoudiniInput::GetNumberOfInputMeshes
GetNumberOfInputMeshes(input, InputType) ==
    IF InputType \in ObjectArrayTypes
    THEN Cardinality({k \in DOMAIN input.Objects[InputType] :
                         IsValidObject(input.Objects[InputType][k])})
    ELSE 0

\* Whether the loop that sets a parameter on the object merges plugged into the
\* input's merge node meets a SetParmIntValue that fails
MergedParmFails(input, InputType, Fail) ==
    /\ input.InputNodeId >= 0
    /\ GetNumberOfInputMeshes(input, InputType) > 0
    /\ "QueryNodeInput" \notin Fail
    /\ "SetParm" \in Fail

\* FHoudiniInputTranslator::UpdateTransformType
UpdateTransformType(input, Fail) ==
    IF ~IsValidObject(input) THEN FALSE
    ELSE
    LET bHost == IF input.bIsObjectPathParameter
                 THEN "SetParm" \notin Fail
                 ELSE "QueryNodeInput" \in Fail \/ "SetParm" \notin Fail
        bMerged == IF input.Type \notin {"Geometry", "Asset"}
                   THEN ~MergedParmFails(input, input.Type, Fail)
                   ELSE TRUE
    IN  bHost /\ bMerged

\* FHoudiniInputTranslator::UpdatePackBeforeMerge
UpdatePackBeforeMerge(input, Fail) ==
    IF ~IsValidObject(input) THEN FALSE
    ELSE IF input.Type \notin {"World", "Geometry"} THEN TRUE
    ELSE ~MergedParmFails(input, input.Type, Fail)

\* FHoudiniInputTranslator::UpdateTransformOffset
UpdateTransformOffset(input, Fail) ==
    IF ~IsValidObject(input) THEN FALSE
    ELSE IF input.Type # "Geometry" THEN TRUE
    ELSE ~ \E k \in DOMAIN input.Objects["Geometry"] :
              /\ IsValidObject(input.Objects["Geometry"][k])
              /\ input.Objects["Geometry"][k].Transform # Identity
              /\ "SetObjectTransform" \in Fail

\* FHoudiniInputTranslator::UpdateInputProperties
UpdateInputProperties(input, Fail) ==
    /\ UpdateTransformType(input, Fail)
    /\ UpdatePackBeforeMerge(input, Fail)
    /\ UpdateTransformOffset(input, Fail)

(***************************************************************************)
(* UploadChangedInputs                                                     *)
(***************************************************************************)
\* bSuccess of UploadChangedInputs once its three steps ran: the answers of the
\* data and transform uploads are and-ed into it, then the answer of
\* UpdateInputProperties is assigned to it
UploadSucceeded(bDataOk, bTransformOk, bPropertiesOk) == bPropertiesOk

\* The end of the loop body without SetNeedsToTriggerUpdate(false)
FinishInput_KeepTrigger(input) ==
    IF HasInputTypeChanged(input) THEN [input EXCEPT !.PreviousType = "Invalid"] ELSE input

\* The end of the loop body of UploadChangedInputs: the previous input type is
\* forgotten, and "Even if we failed, no need to try updating again."
FinishInput(input) ==
    [(IF HasInputTypeChanged(input) THEN [input EXCEPT !.PreviousType = "Invalid"] ELSE input)
        EXCEPT !.bNeedsToTriggerUpdate = FALSE]

\* What UploadChangedInputs records of an input
InputLog(st, bProcessed) ==
    [processed |-> bProcessed, steps |-> st.steps,
     atEntry |-> st.atEntry, uploaded |-> st.uploaded, created |-> st.created,
     deleted |-> st.deleted, connected |-> st.connected,
     destroyCalls |-> st.destroyCalls, assetCalls |-> st.assetCalls]

\* UploadChangedInputs when the export type of a Landscape input has changed:
\* the input is disconnected and destroyed, and its objects are marked changed
UpdateLandscapeExportType(s1) ==
    IF s1.input.Type = "Landscape" /\ s1.input.bLandscapeExportTypeChanged
    THEN [DisconnectAndDestroyInput(s1, s1.input.Type)
             EXCEPT !.input = [MarkAllInputObjectsChanged(@, TRUE)
                                  EXCEPT !.bLandscapeExportTypeChanged = FALSE]]
    ELSE s1

\* UploadChangedInputs once UploadInputData left u: the input needs its data
\* uploaded again when it failed
DataUploaded(u) ==
    [u EXCEPT !.input.bDataUploadNeeded = ~u.ret,
              !.steps.dataTried = TRUE, !.steps.dataOk = u.ret]

\* UploadChangedInputs: the data upload, when IsDataUploadNeeded()
UploadDataIfNeeded(s2) ==
    IF IsDataUploadNeeded(s2.input) THEN DataUploaded(UploadInputData(s2)) ELSE s2

\* UploadChangedInputs once UploadInputTransform left x
TransformUploaded(x) ==
    [x EXCEPT !.steps.xformTried = TRUE, !.steps.xformOk = x.ret]

\* UploadChangedInputs: the transform upload, when IsTransformUploadNeeded()
UploadTransformIfNeeded(s3) ==
    IF IsTransformUploadNeeded(s3.input) THEN TransformUploaded(UploadInputTransform(s3))
    ELSE s3

\* UploadChangedInputs: "Update the input properties AFTER eventually uploading
\* it", then the end of the loop body
UpdatePropertiesAndFinish(s4) ==
    LET propsOk == UpdateInputProperties(s4.input, s4.Fail)
        bSuccess == UploadSucceeded(s4.steps.dataOk, s4.steps.xformOk, propsOk)
    IN  [s4 EXCEPT !.input = FinishInput(
                                 IF bSuccess
                                 THEN MarkAllInputObjectsChanged(MarkChanged(@, FALSE), FALSE)
                                 ELSE @),
                   !.steps.propsOk = propsOk]

\* The body of the loop of UploadChangedInputs for an input that is valid and
\* has changed; the steps taken are in the steps of the call state
ProcessChangedInput(st) ==
    UpdatePropertiesAndFinish(
        UploadTransformIfNeeded(
            UploadDataIfNeeded(
                UpdateLandscapeExportType(
                    IF HasInputTypeChanged(st.input) THEN ChangeInputType(st, FALSE) ELSE st))))

\* The loop of UploadChangedInputs once its body left s for input k
StoreInput(run, k, s) ==
    [Inputs |-> [run.Inputs EXCEPT ![k] = s.input],
     comps |-> s.comps,
     down |-> s.down,
     logs |-> Append(run.logs, InputLog(s, TRUE))]

\* The loop of UploadChangedInputs from input k on.  `run` holds the inputs, the
\* components, the downstream links and the logs of the inputs done.
RECURSIVE UploadInputsFrom(_, _, _)
UploadInputsFrom(run, Fail, k) ==
    IF k > Len(run.Inputs) THEN run
    ELSE
    LET CurrentInput == run.Inputs[k]
        st == CallState(CurrentInput, run.comps, run.down, Fail)
    IN  IF ~IsValidObject(CurrentInput) \/ ~CurrentInput.bHasChanged
        THEN UploadInputsFrom([run EXCEPT !.logs = Append(@, InputLog(st, FALSE))],
                              Fail, k + 1)
        ELSE UploadInputsFrom(StoreInput(run, k, ProcessChangedInput(st)), Fail, k + 1)

(***************************************************************************)
(* SpecUpload: the owner component's inputs are edited in the editor and   *)
(* uploaded by UploadChangedInputs; DestroyInputNodes is also called from  *)
(* outside the translator.                                                 *)
(***************************************************************************)
\* At most this many kinds of HAPI call fail during one translator call
MaxFailures == 1

FailureSets == {F \in SUBSET HapiCalls : Cardinality(F) <= MaxFailures}

\* A UHoudiniInputObject as CreateTypedInputObject leaves it
NewInputObject(Type, Transform, hac, Comps) ==
    [Type |-> Type, Life |-> "valid", Target |-> "valid",
     bHasChanged |-> TRUE, bTransformChanged |-> FALSE, bNeedsToTriggerUpdate |-> TRUE,
     InputNodeId |-> NoNode, InputObjectNodeId |-> NoNode,
     hac |-> hac, bImportAsReference |-> FALSE,
     Transform |-> Transform, TargetTransform |-> Transform, Comps |-> Comps]

NoObjects == [T \in ObjectArrayTypes |-> <<>>]

\* A UHoudiniInput as NewObject leaves it
NewInput(Id) ==
    [Id |-> Id, Life |-> "valid", Outer |-> 1,
     Type |-> "Invalid", PreviousType |-> "Invalid",
     bHasChanged |-> FALSE, bNeedsToTriggerUpdate |-> FALSE,
     bDataUploadNeeded |-> FALSE, bLandscapeExportTypeChanged |-> FALSE,
     InputNodeId |-> NoNode, CreatedDataNodeIds |-> <<>>,
     AssetNodeId |-> NoNode, bIsObjectPathParameter |-> FALSE,
     InputIndex |-> 0, ParmId |-> NoNode,
     bCanDeleteHoudiniNodes |-> TRUE, bImportAsReference |-> FALSE,
     Label |-> <<>>, Objects |-> NoObjects]

\* A null entry of the Inputs array
NullInput == [NewInput(0) EXCEPT !.Life = "null"]

\* An input of the owner component once BuildAllInputs gave it its type and
\* the user gave it objects
BuiltInput(Id, Type, objects) ==
    [NewInput(Id) EXCEPT !.Type = Type, !.AssetNodeId = 10,
                         !.bHasChanged = TRUE, !.bNeedsToTriggerUpdate = TRUE,
                         !.bDataUploadNeeded = TRUE,
                         !.Objects[Type] = objects]

\* The object arrays the first input can start with
GeometryObjects ==
    <<NewInputObject("StaticMesh", Identity, 0, <<>>),
      NewInputObject("StaticMesh", 1, 0, <<>>)>>
WorldObjects(ActorNodeId) ==
    <<[NewInputObject("Actor", Identity, 0,
                      <<NewInputObject("CameraComponent", Identity, 0, <<>>),
                        NewInputObject("SceneComponent", Identity, 0, <<>>)>>)
          EXCEPT !.InputObjectNodeId = ActorNodeId,
                 !.bHasChanged = ActorNodeId < 0,
                 !.bNeedsToTriggerUpdate = ActorNodeId < 0]>>
AssetObjects(hac) == <<NewInputObject("HoudiniAssetComponent", Identity, hac, <<>>)>>

\* The owner component (1, asset 10) and a second component (2, asset 20) that
\* waits for its instantiation
InitComponents(bOwnerCanDelete) ==
    <<[Life |-> "valid", AssetId |-> 10, bCanDeleteHoudiniNodes |-> bOwnerCanDelete,
       AssetState |-> "None"],
      [Life |-> "valid", AssetId |-> 20, bCanDeleteHoudiniNodes |-> TRUE,
       AssetState |-> "NeedInstantiation"]>>

TrackerIdle == [bConstructed |-> FALSE, IsObjectMoving |-> FALSE,
                lastEvent |-> "none", bHeard |-> FALSE]

\* The second input: an object path parameter holding one static mesh
ParameterInput ==
    [BuiltInput(2, "Geometry", <<GeometryObjects[2]>>)
        EXCEPT !.bIsObjectPathParameter = TRUE, !.ParmId = 5]

\* The owner component with two inputs, the first a node input
InitInputs(firsts, seconds, canDelete, asReference) ==
    /\ LabelIdle /\ InstIdle /\ MatIdle
    /\ \E bOwnerCanDelete \in canDelete, bImportAsReference \in asReference,
          first \in firsts, second \in seconds :
          /\ Components = InitComponents(bOwnerCanDelete)
          /\ Inputs = <<[first EXCEPT !.bCanDeleteHoudiniNodes = bOwnerCanDelete,
                                      !.bImportAsReference = bImportAsReference],
                        IF IsValidObject(second)
                        THEN [second EXCEPT !.bCanDeleteHoudiniNodes = bOwnerCanDelete]
                        ELSE second>>
    /\ Downstream = {}
    /\ Tracker = TrackerIdle
    /\ OwnerWorld = "Editor"
    /\ callLog = [op |-> "none"]

\* The first input holds static meshes or world actors; the second input is an
\* object path parameter or null.  An actor input object may hold a node id
\* given to it outside the translator.
InitUpload ==
    InitInputs({BuiltInput(1, "Geometry", GeometryObjects),
                BuiltInput(1, "World", WorldObjects(NoNode)),
                BuiltInput(1, "World", WorldObjects(150))},
               {NullInput, ParameterInput}, {TRUE}, {FALSE})

\* The paths of the input objects of an array
ObjectPaths(objects) ==
    {<<j>> : j \in DOMAIN objects}
        \cup UNION {{<<j, c>> : c \in DOMAIN objects[j].Comps} : j \in DOMAIN objects}

\* The user changed the content of an input object of the first input's
\* current type
EditInputObject ==
    \E k \in {1} :
        /\ IsValidObject(Inputs[k]) /\ Inputs[k].Type \in ObjectArrayTypes
        /\ \E path \in ObjectPaths(Inputs[k].Objects[Inputs[k].Type]) :
              LET o == ObjectAt(Inputs[k], Inputs[k].Type, path) IN
              /\ IsValidObject(o) /\ ~o.bHasChanged
              /\ Inputs' = [Inputs EXCEPT ![k] =
                    MarkChanged(WithObjectAt(@, @.Type, path, MarkObjectChanged(o, TRUE)), TRUE)]
    /\ callLog' = [op |-> "edit"]
    /\ UNCHANGED <<labelVars, instVars, matVars, Components, Downstream, Tracker, OwnerWorld>>

\* The user moved an input object (not a component of one) of the first
\* input's current type
MoveInputObject ==
    \E k \in {1} :
        /\ IsValidObject(Inputs[k]) /\ Inputs[k].Type \in ObjectArrayTypes
        /\ \E path \in ObjectPaths(Inputs[k].Objects[Inputs[k].Type]) :
              LET o == ObjectAt(Inputs[k], Inputs[k].Type, path) IN
              /\ Len(path) = 1
              /\ IsValidObject(o) /\ ~o.bTransformChanged
              /\ Inputs' = [Inputs EXCEPT ![k] =
                    MarkChanged(WithObjectAt(@, @.Type, path,
                                    MarkTransformChanged(o, TRUE)), TRUE)]
    /\ callLog' = [op |-> "edit"]
    /\ UNCHANGED <<labelVars, instVars, matVars, Components, Downstream, Tracker, OwnerWorld>>

\* UHoudiniInput::SetInputType from the details panel
SetInputType(input, Type) ==
    MarkChanged([input EXCEPT !.PreviousType = input.Type, !.Type = Type], TRUE)

\* The types the user switches the first input between
SwitchableTypes == {"Geometry", "Asset"}

ChangeType ==
    /\ IsValidObject(Inputs[1])
    /\ \E Type \in SwitchableTypes \ {Inputs[1].Type} :
          Inputs' = [Inputs EXCEPT ![1] = SetInputType(@, Type)]
    /\ callLog' = [op |-> "edit"]
    /\ UNCHANGED <<labelVars, instVars, matVars, Components, Downstream, Tracker, OwnerWorld>>

\* The second component was instantiated and cooked, or needs a new cook
AdvanceComponent ==
    /\ Components[2].AssetState # "NeedInstantiation"
    /\ Components' = [Components EXCEPT ![2].AssetState =
                          IF @ = "None" THEN "NeedCook" ELSE "None"]
    /\ callLog' = [op |-> "edit"]
    /\ UNCHANGED <<labelVars, instVars, matVars, Inputs, Downstream, Tracker, OwnerWorld>>

\* FHoudiniInputTranslator::UploadChangedInputs on the owner component
UploadChangedInputs ==
    \E Fail \in FailureSets :
        \E run \in {UploadInputsFrom([Inputs |-> Inputs, comps |-> Components,
                                      down |-> Downstream, logs |-> <<>>], Fail, 1)} :
            /\ IsValidObject(Components[1])
            /\ Inputs' = run.Inputs
            /\ Components' = run.comps
            /\ Downstream' = run.down
            /\ callLog' = [op |-> "UploadChangedInputs", before |-> Inputs, ret |-> TRUE,
                           logs |-> run.logs]
            /\ UNCHANGED <<labelVars, instVars, matVars, Tracker, OwnerWorld>>

\* FHoudiniInputTranslator::DestroyInputNodes called on one entry of the array
CallDestroyInputNodes ==
    \E k \in DOMAIN Inputs, InputType \in SwitchableTypes,
       Fail \in {F \in FailureSets : F \subseteq {"IsHoudiniNodeValid"}} :
        \E r \in {DestroyInputNodes(CallState(Inputs[k], Components, Downstream, Fail),
                                    InputType)} :
            /\ Inputs' = [Inputs EXCEPT ![k] = r.input]
            /\ callLog' = [op |-> "DestroyInputNodes", before |-> Inputs, ret |-> r.ret,
                           logs |-> <<InputLog(r, TRUE)>>]
            /\ UNCHANGED <<labelVars, instVars, matVars, Components, Downstream,
                           Tracker, OwnerWorld>>

NextUpload ==
    \/ EditInputObject
    \/ MoveInputObject
    \/ UploadChangedInputs

SpecUpload == InitUpload /\ [][NextUpload]_vars

\* SpecAsset: the first input holds a Houdini asset, the second component or
\* the owner itself, as an Asset input or as a World input; the second input is
\* null.  The owner component can be one that may not delete Houdini nodes.
InitAsset ==
    InitInputs({BuiltInput(1, "Asset", AssetObjects(1)),
                BuiltInput(1, "Asset", AssetObjects(2)),
                BuiltInput(1, "World", AssetObjects(2))},
               {NullInput}, BOOLEAN, BOOLEAN)

NextAsset ==
    \/ EditInputObject
    \/ ChangeType
    \/ AdvanceComponent
    \/ UploadChangedInputs
    \/ CallDestroyInputNodes

SpecAsset == InitAsset /\ [][NextAsset]_vars

\* The logs of the inputs in the last translator call
LastLogs ==
    IF callLog.op \in {"UploadChangedInputs", "DestroyInputNodes"}
    THEN Range(callLog.logs) ELSE {}

(***************************************************************************)
(* Claims about UploadInputData and UploadChangedInputs (SpecUpload).      *)
(***************************************************************************)
\* What UploadInputData had to do with the object that was `o` when it ran, now
\* `now`, at `path` of an input whose log is L
KeptObject(L, path, o, now) ==
    /\ path \notin L.uploaded
    /\ o.InputObjectNodeId \in Range(L.created)
    /\ now.InputNodeId = o.InputNodeId
    /\ now.InputObjectNodeId = o.InputObjectNodeId

\* C1: when UploadInputData runs on an input, a valid input object that has not
\* changed and has an InputObjectNodeId >= 0 is not handed to
\* UploadHoudiniInputObject, keeps its node ids, and its InputObjectNodeId is in
\* CreatedNodeIds; for such an Actor object this holds for each of its valid
\* components, the other components being uploaded; every other valid input
\* object is handed to UploadHoudiniInputObject.
C1_UnchangedObjectsKept ==
    callLog.op = "UploadChangedInputs" =>
        \A k \in DOMAIN callLog.logs :
            LET L == callLog.logs[k]
                objects == Inputs[k].Objects[Inputs[k].Type]
            IN  L.steps.dataTried =>
                \A j \in DOMAIN L.atEntry :
                    LET o == L.atEntry[j] IN
                    IsValidObject(o) =>
                        IF ~o.bHasChanged /\ o.InputObjectNodeId >= 0
                        THEN IF o.Type = "Actor"
                             THEN /\ <<j>> \notin L.uploaded
                                  /\ \A c \in DOMAIN o.Comps :
                                        IsValidObject(o.Comps[c]) =>
                                            IF /\ ~o.Comps[c].bHasChanged
                                               /\ o.Comps[c].InputObjectNodeId >= 0
                                            THEN KeptObject(L, <<j, c>>, o.Comps[c],
                                                            objects[j].Comps[c])
                                            ELSE <<j, c>> \in L.uploaded
                             ELSE KeptObject(L, <<j>>, o, objects[j])
                        ELSE <<j>> \in L.uploaded

\* An upload of static meshes that kept the first mesh and uploaded the second
C1_Witness ==
    /\ callLog.op = "UploadChangedInputs"
    /\ LET L == callLog.logs[1] IN
       /\ L.steps.dataTried
       /\ Len(L.atEntry) = 2
       /\ L.atEntry[1].Type = "StaticMesh"
       /\ ~L.atEntry[1].bHasChanged /\ L.atEntry[1].InputObjectNodeId >= 0
       /\ L.uploaded = {<<2>>}
       /\ L.created[1] = L.atEntry[1].InputObjectNodeId

\* An upload that kept an unchanged actor, kept its camera component and
\* uploaded its scene component
ActorKeptAndComponentUploaded ==
    /\ callLog.op = "UploadChangedInputs"
    /\ LET L == callLog.logs[1] IN
       /\ L.steps.dataTried
       /\ Len(L.atEntry) = 1
       /\ L.atEntry[1].Type = "Actor"
       /\ ~L.atEntry[1].bHasChanged /\ L.atEntry[1].InputObjectNodeId >= 0
       /\ L.uploaded = {<<1, 2>>}
       /\ L.created = <<L.atEntry[1].Comps[1].InputObjectNodeId>>

\* C2: for every input UploadChangedInputs processed, if the data upload, the
\* transform upload or UpdateInputProperties failed, the input is still marked
\* changed when UploadChangedInputs returns.
C2_ChangedKeptOnFailure ==
    callLog.op = "UploadChangedInputs" =>
        \A k \in DOMAIN callLog.logs :
            LET L == callLog.logs[k] IN
            (L.processed /\ ~(L.steps.dataOk /\ L.steps.xformOk /\ L.steps.propsOk))
                => Inputs[k].bHasChanged

\* C3: after UploadChangedInputs on a valid component, every input that was
\* valid and changed at entry has NeedsToTriggerUpdate false, whether its upload
\* succeeded or failed, every other input is as it was at entry, and the
\* function answered true.
C3_TriggerReset ==
    callLog.op = "UploadChangedInputs" =>
        /\ callLog.ret = TRUE
        /\ \A k \in DOMAIN callLog.before :
              IF IsValidObject(callLog.before[k]) /\ callLog.before[k].bHasChanged
              THEN ~Inputs[k].bNeedsToTriggerUpdate
              ELSE Inputs[k] = callLog.before[k]

\* A call in which the first input failed a step and so stayed changed, while
\* the second input, valid and not changed, was left alone
C3_Witness ==
    /\ callLog.op = "UploadChangedInputs"
    /\ callLog.before[1].bNeedsToTriggerUpdate
    /\ ~callLog.logs[1].steps.propsOk
    /\ Inputs[1].bHasChanged
    /\ IsValidObject(callLog.before[2]) /\ ~callLog.before[2].bHasChanged
    /\ ~callLog.logs[2].processed

(***************************************************************************)
(* Claims about DestroyInputNodes and asset inputs (SpecAsset).            *)
(***************************************************************************)
\* Every node id an input holds
NodeIdsOf(input) ==
    <<input.InputNodeId, input.CreatedDataNodeIds,
      [T \in ObjectArrayTypes |->
          [j \in DOMAIN input.Objects[T] |->
              <<input.Objects[T][j].InputNodeId, input.Objects[T][j].InputObjectNodeId,
                [c \in DOMAIN input.Objects[T][j].Comps |->
                    <<input.Objects[T][j].Comps[c].InputNodeId,
                      input.Objects[T][j].Comps[c].InputObjectNodeId>>]>>]]>>

\* The calls of DestroyInputNodes in the last translator call
LastDestroyCalls == UNION {L.destroyCalls : L \in LastLogs}

\* C6: DestroyInputNodes on an input that is null or pending kill, or whose
\* CanDeleteHoudiniNodes() is false, answers false and deletes no node; on any
\* other input, called with the Asset type, it answers true, deletes no node and
\* changes no node id of the input or of its input objects.
C6_AssetInputKept ==
    \A d \in LastDestroyCalls :
        IF ~IsValidObject(d.before) \/ ~d.before.bCanDeleteHoudiniNodes
        THEN d.ret = FALSE /\ d.deleted = {}
        ELSE d.InputType = "Asset" =>
                /\ d.ret = TRUE
                /\ d.deleted = {}
                /\ NodeIdsOf(d.after) = NodeIdsOf(d.before)

\* DestroyInputNodes answered true for the Asset type on an input that holds
\* the node of its input asset
C6_Witness ==
    \E d \in LastDestroyCalls :
        /\ d.InputType = "Asset"
        /\ d.ret = TRUE
        /\ IsValidObject(d.before)
        /\ Len(d.before.Objects["Asset"]) > 0
        /\ d.before.Objects["Asset"][1].InputObjectNodeId >= 0
        /\ d.before.InputNodeId >= 0

\* The calls of HapiCreateInputNodeForHoudiniAssetComponent in the last
\* translator call that were given the owner's own asset
LastSelfInputCalls ==
    {a \in UNION {L.assetCalls : L \in LastLogs} :
        /\ a.bTargetValid
        /\ Components[a.hac].AssetId = Components[1].AssetId}

\* A call that registered, changed and connected nothing
NothingDone(a) ==
    /\ a.linked = {}
    /\ a.after = a.before
    /\ a.connected = {}

\* C7 as stated: given an input object whose component has the asset id of the
\* owner of the input, HapiCreateInputNodeForHoudiniAssetComponent answers false
\* and registers no downstream link, changes no node id, connects nothing.
C7_SelfInputRefused ==
    \A a \in LastSelfInputCalls : a.ret = FALSE /\ NothingDone(a)

\* C7: given an input object whose component has the asset id of the owner of
\* the input, HapiCreateInputNodeForHoudiniAssetComponent registers no
\* downstream link, changes no node id and connects nothing; it answers false
\* when that component can delete Houdini nodes and true when it cannot; and no
\* component is ever registered as downstream of a component with its own asset
\* id.
C7_SelfInputNeverLinked ==
    /\ \A a \in LastSelfInputCalls :
          /\ NothingDone(a)
          /\ a.ret = ~Components[a.hac].bCanDeleteHoudiniNodes
    /\ \A p \in Downstream : Components[p[1]].AssetId # Components[p[2]].AssetId

\* The owner's own asset was refused as its input
C7_Witness ==
    \E a \in LastSelfInputCalls : a.ret = FALSE /\ Components[a.hac].bCanDeleteHoudiniNodes


(***************************************************************************)
(* SpecWorld: the editor's movement events, FHoudiniMoveTracker and        *)
(* UpdateWorldInputs on the owner component (editor build).                *)
(*                                                                         *)
(* Tracker.bConstructed tells whether the function-local static of         *)
(* FHoudiniMoveTracker::Get() was constructed, which registers the four    *)
(* lambdas.  Tracker.lastEvent is the last movement event the editor       *)
(* broadcast and Tracker.bHeard whether the tracker's lambda ran for it.   *)
(***************************************************************************)
EditorEvents == {"BeginObjectMovement", "EndObjectMovement",
                 "BeginCameraMovement", "EndCameraMovement"}

\* The world of the owner's actor: an editor world, a play-in-editor world, no
\* world, or no owner actor at all
Worlds == {"Editor", "PIE", "NoWorld", "NoOwner"}

\* The lambda on OnEndObjectMovement leaving the flag as it is
OnEndObjectMovement_FlagKept(t) == t

\* The lambdas the constructor of FHoudiniMoveTracker registers
OnBeginObjectMovement(t) == [t EXCEPT !.IsObjectMoving = TRUE]
OnEndObjectMovement(t) == [t EXCEPT !.IsObjectMoving = FALSE]
OnBeginCameraMovement(t) == [t EXCEPT !.IsObjectMoving = FALSE]
OnEndCameraMovement(t) == [t EXCEPT !.IsObjectMoving = FALSE]

\* The editor broadcasts event e to the lambdas registered so far
Broadcast(t, e) ==
    IF ~t.bConstructed THEN [t EXCEPT !.lastEvent = e, !.bHeard = FALSE]
    ELSE [(CASE e = "BeginObjectMovement" -> OnBeginObjectMovement(t)
             [] e = "EndObjectMovement"   -> OnEndObjectMovement(t)
             [] e = "BeginCameraMovement" -> OnBeginCameraMovement(t)
             [] e = "EndCameraMovement"   -> OnEndCameraMovement(t))
            EXCEPT !.lastEvent = e, !.bHeard = TRUE]

\* FHoudiniMoveTracker::Get: the instance is constructed by the first call
FHoudiniMoveTrackerGet(t) ==
    IF t.bConstructed THEN t
    ELSE [t EXCEPT !.bConstructed = TRUE, !.IsObjectMoving = FALSE]

\* UHoudiniInputActor::HasActorTransformChanged and
\* UHoudiniInputSceneComponent::HasComponentTransformChanged: the cached
\* transform is not the transform of the actor or component
HasTransformChanged(o) == o.Transform # o.TargetTransform

\* The loop of UpdateWorldInput over the components of an actor: the
\* components with their marks, and whether one was marked
UpdateActorComponents(Comps) ==
    [Comps |-> [c \in DOMAIN Comps |->
                   IF HasTransformChanged(Comps[c])
                   THEN MarkTransformChanged(Comps[c], TRUE) ELSE Comps[c]],
     bHasChanged |-> \E c \in DOMAIN Comps : HasTransformChanged(Comps[c])]

\* The loop of UpdateWorldInput over the World input objects from k on; acc
\* holds the objects as they are kept, the ones of ObjectToDeleteIndices left
\* out, and bHasChanged.  The contents of the actors of the model do not change
\* (HasContentChanged) and their components are neither added nor removed.
RECURSIVE UpdateWorldObjects(_, _, _)
UpdateWorldObjects(objects, k, acc) ==
    IF k > Len(objects) THEN acc
    ELSE
    LET ActorObject == objects[k] IN
    IF ActorObject.Type # "Actor" \/ ~IsValidObject(ActorObject)
    THEN UpdateWorldObjects(objects, k + 1, [acc EXCEPT !.kept = Append(@, ActorObject)])
    ELSE IF ActorObject.Target # "valid"
    THEN UpdateWorldObjects(objects, k + 1,
             [acc EXCEPT !.bHasChanged = @ \/ ActorObject.InputNodeId > 0
                                           \/ ActorObject.InputObjectNodeId > 0])
    ELSE
    LET o1 == IF HasTransformChanged(ActorObject)
              THEN MarkTransformChanged(ActorObject, TRUE) ELSE ActorObject
        cs == UpdateActorComponents(ActorObject.Comps)
    IN  UpdateWorldObjects(objects, k + 1,
            [kept |-> Append(acc.kept, [o1 EXCEPT !.Comps = cs.Comps]),
             bHasChanged |-> acc.bHasChanged \/ HasTransformChanged(ActorObject)
                                             \/ cs.bHasChanged])

\* FHoudiniInputTranslator::UpdateWorldInput, for an input that is not in bound
\* selector mode
UpdateWorldInput(InInput) ==
    IF ~IsValidObject(InInput) THEN [input |-> InInput, ret |-> FALSE]
    ELSE IF InInput.Type # "World" THEN [input |-> InInput, ret |-> FALSE]
    ELSE
    LET r  == UpdateWorldObjects(InInput.Objects["World"], 1,
                                 [kept |-> <<>>, bHasChanged |-> FALSE])
        i1 == [InInput EXCEPT !.Objects["World"] = r.kept]
    IN  [input |-> IF r.bHasChanged THEN MarkChanged(i1, TRUE) ELSE i1, ret |-> TRUE]

\* FHoudiniInputTranslator::UpdateWorldInputs: what it answers, the inputs and
\* the tracker afterwards, and the indices of the inputs it handed to
\* UpdateWorldInput
UpdateWorldInputs(HAC, World, InInputs, t) ==
    IF ~IsValidObject(HAC)
    THEN [ret |-> FALSE, Inputs |-> InInputs, Tracker |-> t, calls |-> {}]
    ELSE IF World # "NoOwner" /\ World # "Editor"
    THEN [ret |-> FALSE, Inputs |-> InInputs, Tracker |-> t, calls |-> {}]
    ELSE
    LET t1 == FHoudiniMoveTrackerGet(t) IN
    IF t1.IsObjectMoving
    THEN [ret |-> FALSE, Inputs |-> InInputs, Tracker |-> t1, calls |-> {}]
    ELSE
    LET calls == {k \in DOMAIN InInputs :
                     InInputs[k].Life # "null" /\ InInputs[k].Type = "World"}
    IN  [ret |-> TRUE,
         Inputs |-> [k \in DOMAIN InInputs |->
                        IF k \in calls THEN UpdateWorldInput(InInputs[k]).input
                        ELSE InInputs[k]],
         Tracker |-> t1,
         calls |-> calls]

\* A World input whose actor was uploaded and has not changed since
UploadedWorldInput(Id) ==
    [BuiltInput(Id, "World",
                <<[NewInputObject("Actor", Identity, 0,
                                  <<[NewInputObject("CameraComponent", Identity, 0, <<>>)
                                        EXCEPT !.bHasChanged = FALSE,
                                               !.bNeedsToTriggerUpdate = FALSE,
                                               !.InputObjectNodeId = NodeBase(Id, <<1, 1>>)]>>)
                      EXCEPT !.bHasChanged = FALSE,
                             !.bNeedsToTriggerUpdate = FALSE]>>)
        EXCEPT !.bHasChanged = FALSE, !.bNeedsToTriggerUpdate = FALSE,
               !.bDataUploadNeeded = FALSE,
               !.InputNodeId = NodeBase(Id, <<>>),
               !.CreatedDataNodeIds = <<NodeBase(Id, <<1, 1>>)>>]

\* The owner component, valid or pending kill, has two inputs: World inputs,
\* valid or pending kill, a Geometry input, a null entry
InitWorld ==
    /\ LabelIdle /\ InstIdle /\ MatIdle
    /\ \E Life \in {"valid", "pendingkill"} :
          Components = [InitComponents(TRUE) EXCEPT ![1].Life = Life]
    /\ \E first \in {UploadedWorldInput(1), BuiltInput(1, "Geometry", GeometryObjects)},
          second \in {NullInput, ParameterInput, UploadedWorldInput(2),
                      [UploadedWorldInput(2) EXCEPT !.Life = "pendingkill"]} :
          Inputs = <<first, second>>
    /\ Downstream = {}
    /\ Tracker = TrackerIdle
    /\ OwnerWorld \in Worlds
    /\ callLog = [op |-> "none"]

\* The editor broadcasts a movement event
EditorEvent ==
    /\ \E e \in EditorEvents : Tracker' = Broadcast(Tracker, e)
    /\ callLog' = [op |-> "event"]
    /\ UNCHANGED <<labelVars, instVars, matVars, Inputs, Components, Downstream, OwnerWorld>>

\* An actor of a World input, or one of its components, is moved in the level
MoveActor ==
    \E k \in DOMAIN Inputs :
        /\ Inputs[k].Life # "null"
        /\ \E path \in ObjectPaths(Inputs[k].Objects["World"]), Value \in TransformPool :
              LET o == ObjectAt(Inputs[k], "World", path) IN
              /\ o.Target = "valid" /\ o.TargetTransform # Value
              /\ Inputs' = [Inputs EXCEPT ![k] =
                    WithObjectAt(@, "World", path, [o EXCEPT !.TargetTransform = Value])]
        /\ callLog' = [op |-> "edit"]
        /\ UNCHANGED <<labelVars, instVars, matVars, Components, Downstream, Tracker,
                       OwnerWorld>>

\* An actor of a World input is deleted from the level
DeleteActor ==
    \E k \in DOMAIN Inputs :
        /\ Inputs[k].Life # "null"
        /\ \E j \in DOMAIN Inputs[k].Objects["World"] :
              /\ Inputs[k].Objects["World"][j].Target = "valid"
              /\ Inputs' = [Inputs EXCEPT ![k].Objects["World"][j].Target = "pendingkill"]
        /\ callLog' = [op |-> "edit"]
        /\ UNCHANGED <<labelVars, instVars, matVars, Components, Downstream, Tracker,
                       OwnerWorld>>

\* A play-in-editor session starts or ends
TogglePlayInEditor ==
    /\ OwnerWorld \in {"Editor", "PIE"}
    /\ OwnerWorld' = IF OwnerWorld = "Editor" THEN "PIE" ELSE "Editor"
    /\ callLog' = [op |-> "edit"]
    /\ UNCHANGED <<labelVars, instVars, matVars, Inputs, Components, Downstream, Tracker>>

\* FHoudiniInputTranslator::UpdateWorldInputs on the owner component
CallUpdateWorldInputs ==
    LET r == UpdateWorldInputs(Components[1], OwnerWorld, Inputs, Tracker) IN
    /\ Inputs' = r.Inputs
    /\ Tracker' = r.Tracker
    /\ callLog' = [op |-> "UpdateWorldInputs", before |-> Inputs, ret |-> r.ret,
                   calls |-> r.calls, tracker |-> Tracker]
    /\ UNCHANGED <<labelVars, instVars, matVars, Components, Downstream, OwnerWorld>>

NextWorld ==
    \/ EditorEvent
    \/ MoveActor
    \/ DeleteActor
    \/ TogglePlayInEditor
    \/ CallUpdateWorldInputs

SpecWorld == InitWorld /\ [][NextWorld]_vars

\* An object is being dragged as FHoudiniMoveTracker tracks it: the last
\* movement event is a begin-object-movement event and its lambda ran for it
ObjectDragTracked(t) == t.lastEvent = "BeginObjectMovement" /\ t.bHeard

WorldInputMarkedAfterDrag ==
    /\ callLog.op = "UpdateWorldInputs"
    /\ callLog.tracker.lastEvent = "EndObjectMovement" /\ callLog.tracker.bHeard
    /\ callLog.ret = TRUE
    /\ callLog.calls = {1, 2}
    /\ ~callLog.before[1].bHasChanged /\ Inputs[1].bHasChanged
    /\ Inputs[2].Life = "pendingkill"

\* UpdateWorldInputs ran during an object movement that began before the
\* tracker was constructed
DragBeforeTrackerConstructed ==
    /\ callLog.op = "UpdateWorldInputs"
    /\ callLog.tracker.lastEvent = "BeginObjectMovement" /\ ~callLog.tracker.bHeard
    /\ callLog.ret = TRUE


(***************************************************************************)
(* SpecBuild: BuildAllInputs on the owner component, whose asset changes   *)
(* its number of geometry inputs and its parameters between the calls.     *)
(***************************************************************************)
\* The asset has at most this many geometry (SOP) inputs
MaxGeoInputs == 2

\* The component has at most this many parameters
MaxParameters == 2

\* The UHoudiniParameter objects a component can hold: an operator path
\* parameter (type Input) and a float parameter
ParameterKinds ==
    {[Type |-> "Input", Label |-> <<"H","D","A">>],
     [Type |-> "Float", Label |-> <<"s","e","t">>]}

ParameterLists == SeqUpTo(ParameterKinds, MaxParameters)

\* UHoudiniParameter::GetParmId of the parameter at index k of the array
ParmIdOf(k) == 40 + k

\* The name the session gives to geometry input InputIdx (from 0)
NodeInputName(InputIdx) ==
    IF InputIdx = 0 THEN <<"W","O","R","L","D">> ELSE <<"C","u","r","v","e">>

\* FString::FromInt of a number below ten
FromInt(n) == <<<<"0","1","2","3","4","5","6","7","8","9">>[n + 1]>>

\* TEXT("Input") + FString::FromInt(InputIdx + 1)
DefaultInputName(InputIdx) == <<"I","n","p","u","t">> \o FromInt(InputIdx + 1)

\* The input count without the object path parameters
InputCount_GeoOnly(geoInputCount, Parameters) == geoInputCount

\* InputCount of BuildAllInputs: the geometry inputs of the asset info and the
\* parameters of type Input
InputCount(geoInputCount, Parameters) ==
    geoInputCount + Len(SelectSeq(Parameters, LAMBDA p : p.Type = "Input"))

\* The positions, in Parameters, of InputParameters
InputParameterIndices(Parameters) ==
    SelectSeq([k \in DOMAIN Parameters |-> k], LAMBDA k : Parameters[k].Type = "Input")

\* The loop of BuildAllInputs that appends the missing inputs; NewObject fails
\* for the indices in NewObjectFails
RECURSIVE AppendNewInputs(_, _, _, _)
AppendNewInputs(InInputs, InputIdx, Count, NewObjectFails) ==
    IF InputIdx >= Count THEN InInputs
    ELSE IF InputIdx \in NewObjectFails
    THEN AppendNewInputs(InInputs, InputIdx + 1, Count, NewObjectFails)
    ELSE AppendNewInputs(Append(InInputs, NewInput(InputIdx + 1)), InputIdx + 1, Count,
                         NewObjectFails)

\* The loop of BuildAllInputs over the inputs it drops, from the last one down
\* to index Count: st holds the components, the downstream links and the nodes
\* deleted
RECURSIVE DestroyTrailingInputs(_, _, _, _)
DestroyTrailingInputs(InInputs, InputIdx, Count, st) ==
    IF InputIdx < Count THEN st
    ELSE
    LET CurrentInput == InInputs[InputIdx + 1] IN
    IF ~IsValidObject(CurrentInput)
    THEN DestroyTrailingInputs(InInputs, InputIdx - 1, Count, st)
    ELSE DestroyTrailingInputs(InInputs, InputIdx - 1, Count,
             DisconnectAndDestroyInput([st EXCEPT !.input = CurrentInput],
                                       CurrentInput.Type))

\* The body of the loop of BuildAllInputs that names and types input InputIdx.
\* The operator path parameters of the model have an empty default value, for
\* which SetDefaultAssetFromHDA changes nothing, and the curves of a Curve input
\* are not part of the model.
UpdateBuiltInput(CurrentInput, InputIdx, AssetId, geoInputCount, Parameters, Fail) ==
    IF ~IsValidObject(CurrentInput) THEN CurrentInput
    ELSE
    LET CurrentInputName == DefaultInputName(InputIdx)
        bIsObjectPath == InputIdx >= geoInputCount
        InputParameters == InputParameterIndices(Parameters)
        CurrentParmIdx == InputIdx - geoInputCount
        bParm == bIsObjectPath /\ IsValidIndex(InputParameters, CurrentParmIdx)
        ParmId == IF bParm THEN ParmIdOf(InputParameters[CurrentParmIdx + 1]) ELSE NoNode
        CurrentInputLabel ==
            IF ~bIsObjectPath
            THEN IF "GetNodeInputName" \in Fail THEN CurrentInputName
                 ELSE NodeInputName(InputIdx)
            ELSE IF bParm THEN Parameters[InputParameters[CurrentParmIdx + 1]].Label
                 ELSE CurrentInputName
        i1 == IF ~bIsObjectPath
              THEN [CurrentInput EXCEPT !.AssetNodeId = AssetId,
                                        !.bIsObjectPathParameter = FALSE,
                                        !.ParmId = NoNode, !.InputIndex = InputIdx,
                                        !.Label = CurrentInputLabel]
              ELSE [CurrentInput EXCEPT !.AssetNodeId = AssetId,
                                        !.bIsObjectPathParameter = ParmId >= 0,
                                        !.ParmId = ParmId, !.InputIndex = 0,
                                        !.Label = CurrentInputLabel]
    IN  IF i1.Type = "Invalid"
        THEN SetInputType(i1, GetDefaultInputTypeFromLabel(CurrentInputLabel))
        ELSE i1

\* FHoudiniInputTranslator::BuildAllInputs.  session holds what the session and
\* the engine answer during the call: the HAPI calls that fail (Fail), the
\* geoInputCount of the asset info when GetAssetInfo does not, and the indices
\* for which NewObject gives no input (NewObjectFails).
BuildAllInputs(AssetId, InInputs, Parameters, session, comps, down) ==
    IF AssetId < 0 THEN [ret |-> FALSE, Inputs |-> InInputs, down |-> down, deleted |-> {}]
    ELSE IF "GetAssetInfo" \in session.Fail
    THEN [ret |-> FALSE, Inputs |-> InInputs, down |-> down, deleted |-> {}]
    ELSE
    LET Count == InputCount(session.geoInputCount, Parameters)
        st == IF Count < Len(InInputs)
              THEN DestroyTrailingInputs(InInputs, Len(InInputs) - 1, Count,
                                         CallState(NullInput, comps, down, session.Fail))
              ELSE CallState(NullInput, comps, down, session.Fail)
        sized == IF Count > Len(InInputs)
                 THEN AppendNewInputs(InInputs, Len(InInputs), Count, session.NewObjectFails)
                 ELSE IF Count < Len(InInputs) THEN SubSeq(InInputs, 1, Count)
                 ELSE InInputs
    IN  [ret |-> TRUE,
         Inputs |-> [k \in DOMAIN sized |->
                        UpdateBuiltInput(sized[k], k - 1, AssetId, session.geoInputCount,
                                         Parameters, session.Fail)],
         down |-> st.down,
         deleted |-> st.deleted]

\* The owner component was just created: it has no input yet
InitBuild ==
    /\ LabelIdle /\ InstIdle /\ MatIdle
    /\ Components = InitComponents(TRUE)
    /\ Inputs = <<>>
    /\ Downstream = {}
    /\ Tracker = TrackerIdle
    /\ OwnerWorld = "Editor"
    /\ callLog = [op |-> "none"]

\* What the session and the engine answer during a call that asks nothing
NoAnswer == [geoInputCount |-> 0, Fail |-> {}, NewObjectFails |-> {}]

\* What the session and the engine can answer during one call on an array of
\* Num inputs: the asset info or its failure, the input names or their
\* failure, and NewObject failing for no input or for the first one created
Sessions(AssetId, Num) ==
    IF AssetId < 0 THEN {NoAnswer}
    ELSE {[NoAnswer EXCEPT !.Fail = {"GetAssetInfo"}]}
            \cup [geoInputCount : 0..MaxGeoInputs,
                  Fail : {{}, {"GetNodeInputName"}},
                  NewObjectFails : {{}, {Num}}]

\* FHoudiniInputTranslator::BuildAllInputs on the owner component's inputs
CallBuildAllInputs ==
    \E AssetId \in {NoNode, Components[1].AssetId}, Parameters \in ParameterLists :
    \E session \in Sessions(AssetId, Len(Inputs)) :
        \E r \in {BuildAllInputs(AssetId, Inputs, Parameters, session, Components, Downstream)} :
            /\ Inputs' = r.Inputs
            /\ Downstream' = r.down
            /\ callLog' = [op |-> "BuildAllInputs", ret |-> r.ret,
                           AssetId |-> AssetId, Parameters |-> Parameters,
                           session |-> session]
            /\ UNCHANGED <<labelVars, instVars, matVars, Components, Tracker, OwnerWorld>>

NextBuild ==
    \/ CallBuildAllInputs

SpecBuild == InitBuild /\ [][NextBuild]_vars

\* The number of parameters of type Input among the parameters of a call
NumInputParameters(call) ==
    Cardinality({k \in DOMAIN call.Parameters : call.Parameters[k].Type = "Input"})

\* NewObject failed for an input the call had to create for an array of Num
\* inputs
CreationFailed(call, Num) ==
    \E k \in call.session.NewObjectFails :
        /\ k >= Num
        /\ k < call.session.geoInputCount + NumInputParameters(call)

\* A step of BuildAllInputs does what C4 says
C4_Step ==
    callLog'.op = "BuildAllInputs" =>
        IF callLog'.AssetId < 0 \/ "GetAssetInfo" \in callLog'.session.Fail
        THEN callLog'.ret = FALSE /\ Inputs' = Inputs
        ELSE /\ callLog'.ret = TRUE
             /\ ~CreationFailed(callLog', Len(Inputs)) =>
                   /\ Len(Inputs') = callLog'.session.geoInputCount
                                        + NumInputParameters(callLog')
                   /\ \A k \in DOMAIN Inputs' \cap DOMAIN Inputs : Inputs'[k].Id = Inputs[k].Id

\* C4: when BuildAllInputs is called with AssetId < 0 or the asset info query
\* fails, it answers false and the Inputs array is as before; otherwise it
\* answers true and, unless the creation of an input failed, the array has
\* geoInputCount + (number of parameters of type Input) entries, whose common
\* part with the array before the call holds the same inputs.
C4_InputCount == [][C4_Step]_vars

\* A call for an asset with a geometry input, an operator path parameter and a
\* float parameter answered true and left two inputs
C4_Witness ==
    /\ callLog.op = "BuildAllInputs"
    /\ callLog.ret = TRUE
    /\ callLog.session.NewObjectFails = {}
    /\ callLog.session.geoInputCount = 1
    /\ NumInputParameters(callLog) = 1
    /\ Len(callLog.Parameters) = 2
    /\ Len(Inputs) = 2
    /\ Inputs[1].Type = "World" /\ ~Inputs[1].bIsObjectPathParameter
    /\ Inputs[2].Type = "Asset" /\ Inputs[2].bIsObjectPathParameter

\* A call during which the creation of an input failed left the array short
InputsShortAfterCreationFailure ==
    /\ callLog.op = "BuildAllInputs"
    /\ callLog.ret = TRUE
    /\ callLog.session.NewObjectFails # {}
    /\ Len(Inputs) < callLog.session.geoInputCount + NumInputParameters(callLog)

=============================================================================
